---- MODULE Spec2Model ----
(***************************************************************************)
(* Orchestration core of 24hours: the Todo poller, the In Review poller,   *)
(* the Bull task queue with its three job handlers, the monitor's          *)
(* running-task map and the SQLite session store.                          *)
(***************************************************************************)
EXTENDS Integers, Sequences, FiniteSets, TLC

\* ------------------------------------------------------------------ bounds
\* what one behaviour may spend: a job added to the queue and an event of
\* the environment (a failing agent run, a job timeout, a human comment, a
\* pause, a manual retry request) cost one each
MaxEnv == 4
\* calls of the tracker or of the queue that fail
MaxFaults == 1
\* Session Store writes that may throw in one behaviour.
MaxStoreFaults == 1
\* Comments on one issue in the behaviours that merge comments.
MaxThread == 2
\* Tool calls of one agent run in the behaviours that report progress.
MaxToolCalls == 6
\* The budget of the behaviours with two manual retry requests.
RaceEnv == 6
\* tool calls the agent makes in one run
MaxTools == 1

\* --------------------------------------------------------------- text
\* A text is a tuple of one-character strings.
Upper == <<"A", "B", "C", "D", "E", "F", "G", "H", "I", "J", "K", "L", "M",
           "N", "O", "P", "Q", "R", "S", "T", "U", "V", "W", "X", "Y", "Z">>
Lower == <<"a", "b", "c", "d", "e", "f", "g", "h", "i", "j", "k", "l", "m",
           "n", "o", "p", "q", "r", "s", "t", "u", "v", "w", "x", "y", "z">>

LowerChar(c) ==
    IF \E k \in 1..Len(Upper) : Upper[k] = c
    THEN Lower[CHOOSE k \in 1..Len(Upper) : Upper[k] = c]
    ELSE c

toLowerCase(t) == [k \in 1..Len(t) |-> LowerChar(t[k])]

\* String.prototype.includes: scan the start positions from the left.
RECURSIVE IncludesFrom(_, _, _)
IncludesFrom(t, kw, p) ==
    IF p + Len(kw) - 1 > Len(t) THEN FALSE
    ELSE IF SubSeq(t, p, p + Len(kw) - 1) = kw THEN TRUE
    ELSE IncludesFrom(t, kw, p + 1)

includes(t, kw) == IncludesFrom(t, kw, 1)

REVIEW_KEYWORDS == {
    <<"w", "r", "i", "t", "e">>,
    <<"g", "e", "n", "e", "r", "a", "t", "e">>,
    <<"c", "r", "e", "a", "t", "e">>,
    <<"s", "e", "n", "d">>,
    <<"e", "m", "a", "i", "l">>,
    <<"a", "r", "t", "i", "c", "l", "e">>,
    <<"r", "e", "p", "o", "r", "t">>,
    <<"d", "e", "l", "e", "t", "e">>,
    <<"m", "o", "d", "i", "f", "y">>,
    <<"u", "p", "d", "a", "t", "e">>,
    <<"c", "o", "d", "e">>,
    <<"s", "c", "r", "i", "p", "t">> }

\* `${task.title} ${task.description || ''}`.toLowerCase()
ReviewContent(title, description) ==
    toLowerCase(title \o <<" ">> \o description)

\* The mutation of checkNeedsReview that does not lower-case the text.
checkNeedsReviewCaseSensitive(title, description) ==
    \E kw \in REVIEW_KEYWORDS :
        includes(title \o <<" ">> \o description, kw)

checkNeedsReview(title, description) ==
    \E kw \in REVIEW_KEYWORDS :
        includes(ReviewContent(title, description), kw)

\* ------------------------------------------------------------ work items
Items == {"X1", "X2"}

FixTypo == <<"F", "i", "x", " ", "t", "y", "p", "o">>
GenerateReport ==
    <<"G", "e", "n", "e", "r", "a", "t", "e", " ", "r", "e", "p", "o", "r", "t">>

\* The issues of the team: X-1 "Fix typo" and X-2 "Generate report".
Task == [i \in Items |->
           IF i = "X1" THEN [title |-> FixTypo, description |-> <<>>]
           ELSE [title |-> GenerateReport, description |-> <<>>]]

NeedsReview == [i \in Items |-> checkNeedsReview(Task[i].title, Task[i].description)]

\* enum TaskStatus (the statuses the core reads or writes)
BACKLOG == "Backlog"
TODO == "Todo"
IN_PROGRESS == "In Progress"
IN_REVIEW == "In Review"
DONE == "Done"
FAILED == "Failed"
TaskStatus == {BACKLOG, TODO, IN_PROGRESS, IN_REVIEW, DONE, FAILED}


\* ------------------------------------------------------------------ maps
\* Map.set / INSERT, Map.delete
Put(m, k, v) == [x \in DOMAIN m \cup {k} |-> IF x = k THEN v ELSE m[x]]
Remove(m, k) == [x \in DOMAIN m \ {k} |-> m[x]]
EmptyMap == [x \in {} |-> {}]

\* ---------------------------------------------------- SessionStoreService
\* A session id is a tuple: <<>> is SQL NULL / undefined, <<0>> is the empty
\* string, <<job, attempt>> is the id the agent gives the run of that attempt.
NullSession == <<>>
EmptySession == <<0>>
\* taskSession.sessionId || null
OrNull(s) == IF s = EmptySession THEN NullSession ELSE s
\* COALESCE(@sessionId, session_id)
CoalesceSession(a, b) == IF a # NullSession THEN a ELSE b
\* The mutation of Coalesce that writes the new value, null or not.
CoalesceOverwrite(a, b) == a

\* COALESCE on the columns completed_at and success
Coalesce(a, b) == IF a # "null" THEN a ELSE b

\* The mutation of saveSession that writes session_id = @sessionId.
saveSessionOverwrite(store, ts) ==
    LET id == ts.linearTaskId
        sid == OrNull(ts.sessionId)
    IN  IF id \in DOMAIN store
        THEN Put(store, id,
                 [sessionId |-> sid,
                  title |-> ts.title,
                  startedAt |-> ts.startedAt,
                  completedAt |-> Coalesce(ts.completedAt, store[id].completedAt),
                  success |-> Coalesce(ts.success, store[id].success)])
        ELSE Put(store, id,
                 [sessionId |-> sid, title |-> ts.title, startedAt |-> ts.startedAt,
                  completedAt |-> ts.completedAt, success |-> ts.success])

\* INSERT ... ON CONFLICT(linear_task_id) DO UPDATE SET ...
saveSession(store, ts) ==
    LET id == ts.linearTaskId
        sid == OrNull(ts.sessionId)
    IN  IF id \in DOMAIN store
        THEN Put(store, id,
                 [sessionId |-> CoalesceSession(sid, store[id].sessionId),
                  title |-> ts.title,
                  startedAt |-> ts.startedAt,
                  completedAt |-> Coalesce(ts.completedAt, store[id].completedAt),
                  success |-> Coalesce(ts.success, store[id].success)])
        ELSE Put(store, id,
                 [sessionId |-> sid, title |-> ts.title, startedAt |-> ts.startedAt,
                  completedAt |-> ts.completedAt, success |-> ts.success])

\* UPDATE task_sessions SET session_id = ? WHERE linear_task_id = ?
updateSessionId(store, id, sid) ==
    IF id \in DOMAIN store THEN [store EXCEPT ![id].sessionId = sid] ELSE store

\* UPDATE task_sessions SET completed_at = CURRENT_TIMESTAMP, success = ?
completeTask(store, id, success) ==
    IF id \in DOMAIN store
    THEN [store EXCEPT ![id].completedAt = "set",
                       ![id].success = IF success THEN "1" ELSE "0"]
    ELSE store

RECURSIVE Range(_)
Range(sq) == IF sq = <<>> THEN {} ELSE {Head(sq)} \cup Range(Tail(sq))

\* SELECT 1 FROM processed_comments WHERE comment_id = ?
isCommentProcessed(ledger, c) == c \in DOMAIN ledger

\* The mutation of markCommentProcessed to INSERT OR REPLACE.
markCommentProcessedReplace(ledger, c, taskId) == Put(ledger, c, taskId)

\* INSERT OR IGNORE INTO processed_comments (comment_id, linear_task_id)
markCommentProcessed(ledger, c, taskId) ==
    IF c \in DOMAIN ledger THEN ledger ELSE Put(ledger, c, taskId)

\* the transaction of markCommentsProcessed: one INSERT OR IGNORE per id
RECURSIVE markCommentsProcessed(_, _, _)
markCommentsProcessed(ledger, commentIds, taskId) ==
    IF commentIds = <<>> THEN ledger
    ELSE markCommentsProcessed(markCommentProcessed(ledger, Head(commentIds), taskId),
                               Tail(commentIds), taskId)

\* The mutation of transaction that keeps the inserts made before the throw.
transactionNoRollback(ledger, commentIds, taskId, failAt) ==
    IF failAt = 0 THEN markCommentsProcessed(ledger, commentIds, taskId)
    ELSE markCommentsProcessed(ledger, SubSeq(commentIds, 1, failAt - 1), taskId)

\* this.getDb().transaction(() => { for (...) stmt.run(commentId, taskId) })():
\* the inserts are committed together; when insert number failAt throws
\* (failAt = 0: none does), those made before it are rolled back.
transaction(ledger, commentIds, taskId, failAt) ==
    IF failAt = 0 THEN markCommentsProcessed(ledger, commentIds, taskId)
    ELSE ledger

\* --------------------------------------------------------- MonitorService
\* The monitor's state with the store it writes and what one step broadcasts:
\*   running : runningTasks,  history : taskHistory,  store : task_sessions,
\*   events  : what the gateway broadcast in this step.
Event(ev, taskId, status, progress) ==
    [ev |-> ev, taskId |-> taskId, status |-> status, progress |-> progress]

\* The mutation of taskStarted that does not call saveSession.
taskStartedNoSave(m, taskId, title, now) ==
    [m EXCEPT
       !.running = Put(m.running, taskId,
                       [title |-> title, progress |-> 0, currentStep |-> "",
                        steps |-> <<>>, startedAt |-> now,
                        sessionId |-> NullSession]),
       !.events = m.events \o <<Event("task:update", taskId, "running", 0),
                                Event("log:new", taskId, "info", 0)>>]

taskStarted(m, taskId, title, now) ==
    [m EXCEPT
       !.running = Put(m.running, taskId,
                       [title |-> title, progress |-> 0, currentStep |-> "",
                        steps |-> <<>>, startedAt |-> now,
                        sessionId |-> NullSession]),
       !.store = saveSession(m.store,
                             [linearTaskId |-> taskId, sessionId |-> EmptySession,
                              title |-> title, startedAt |-> now,
                              completedAt |-> "null", success |-> "null"]),
       !.events = m.events \o <<Event("task:update", taskId, "running", 0),
                                Event("log:new", taskId, "info", 0)>>]

\* The mutation of taskProgress without the `if (info)` guard.
taskProgressUnguarded(m, taskId, step, progress) ==
    [m EXCEPT
       !.running = Put(m.running, taskId,
                       IF taskId \in DOMAIN m.running
                       THEN [m.running[taskId] EXCEPT
                               !.progress = progress, !.currentStep = step,
                               !.steps = Append(@, step)]
                       ELSE [title |-> "", progress |-> progress, currentStep |-> step,
                             steps |-> <<step>>, startedAt |-> <<>>,
                             sessionId |-> NullSession]),
       !.events = m.events \o <<Event("task:update", taskId, "running", progress),
                                Event("log:new", taskId, "info", progress)>>]

taskProgress(m, taskId, step, progress) ==
    IF taskId \in DOMAIN m.running
    THEN [m EXCEPT
            !.running = [@ EXCEPT ![taskId].progress = progress,
                                  ![taskId].currentStep = step,
                                  ![taskId].steps = Append(@, step)],
            !.events = m.events \o <<Event("task:update", taskId, "running", progress),
                                     Event("log:new", taskId, "info", progress)>>]
    ELSE m

\* The mutation of taskSessionId without the `if (info)` guard.
taskSessionIdUnguarded(m, taskId, sessionId) ==
    [m EXCEPT
       !.running = Put(m.running, taskId,
                       IF taskId \in DOMAIN m.running
                       THEN [m.running[taskId] EXCEPT !.sessionId = sessionId]
                       ELSE [title |-> "", progress |-> 0, currentStep |-> "",
                             steps |-> <<>>, startedAt |-> <<>>,
                             sessionId |-> sessionId]),
       !.store = updateSessionId(m.store, taskId, sessionId),
       !.events = m.events \o <<Event("task:update", taskId, "running", 0),
                                Event("log:new", taskId, "info", 0)>>]

taskSessionId(m, taskId, sessionId) ==
    IF taskId \in DOMAIN m.running
    THEN [m EXCEPT
            !.running = [@ EXCEPT ![taskId].sessionId = sessionId],
            !.store = updateSessionId(m.store, taskId, sessionId),
            !.events = m.events \o
                <<Event("task:update", taskId, "running", m.running[taskId].progress),
                  Event("log:new", taskId, "info", m.running[taskId].progress)>>]
    ELSE m

\* The mutation of taskCompleted that leaves the entry in runningTasks.
taskCompletedKeepRunning(m, taskId, success) ==
    IF taskId \in DOMAIN m.running
    THEN [m EXCEPT
            !.history = Put(m.history, taskId,
                            [title |-> m.running[taskId].title,
                             sessionId |-> m.running[taskId].sessionId,
                             startedAt |-> m.running[taskId].startedAt,
                             success |-> success]),
            !.store = completeTask(m.store, taskId, success)]
    ELSE m

\* refreshStats() is started and not awaited; its stats:update is taken to be
\* broadcast with the step.
taskCompleted(m, taskId, success) ==
    IF taskId \in DOMAIN m.running
    THEN [m EXCEPT
            !.history = Put(m.history, taskId,
                            [title |-> m.running[taskId].title,
                             sessionId |-> m.running[taskId].sessionId,
                             startedAt |-> m.running[taskId].startedAt,
                             success |-> success]),
            !.store = completeTask(m.store, taskId, success),
            !.events = m.events \o
                <<Event("task:update", taskId,
                        IF success THEN "completed" ELSE "failed", 100),
                  Event("log:new", taskId, IF success THEN "info" ELSE "error", 100),
                  Event("stats:update", taskId, "", 0)>>,
            !.running = Remove(m.running, taskId)]
    ELSE m

\* taskCompleted when completeTask throws: the history entry is already
\* written, the broadcasts, the removal from the running map and the stats
\* refresh are never reached, and the error leaves the method uncaught.
taskCompletedThrows(m, taskId, success) ==
    IF taskId \in DOMAIN m.running
    THEN [m EXCEPT
            !.history = Put(m.history, taskId,
                            [title |-> m.running[taskId].title,
                             sessionId |-> m.running[taskId].sessionId,
                             startedAt |-> m.running[taskId].startedAt,
                             success |-> success])]
    ELSE m


\* ------------------------------------------------------------ LinearService
\* Of a comment body the model keeps what the core reads of it: whether it
\* starts with the robot marker. The bodies the core posts through
\* addComment, by the character they start with.
Body(firstCharacter) == [robot |-> firstCharacter = "robot"]
BodyAck == Body("rocket")
BodyAwaitingReview == Body("eyes")
BodyRetryAwaitingReview == Body("eyes")
BodyProcessingFeedback == Body("cycle")
BodyRetrying == Body("cycle")
BodyManualRetry == Body("cycle")
BodyRetrySuccessful == Body("check")
BodyFailed == Body("cross")
BodySummary == Body("party")
\* what a person writes: "looks good"
BodyHuman == Body("l")

\* c.body.startsWith('<robot> \n')
startsWithRobot(body) == body.robot

\* createComment({issueId, body: content}): the comment gets the next id of
\* the issue and is the newest one.
addComment(cs, issueId, author, content) ==
    [cs EXCEPT ![issueId] =
        Append(@, [id |-> <<issueId, Len(@) + 1>>, author |-> author, body |-> content])]

RECURSIVE Reverse(_)
Reverse(sq) == IF sq = <<>> THEN <<>> ELSE Append(Reverse(Tail(sq)), Head(sq))

\* getComments: the comments of the issue sorted by createdAt, newest first
getComments(cs, issueId) == Reverse(cs[issueId])

\* updateStatus / lockTask: updateIssue(issueId, {stateId}); ok is whether the
\* call of the tracker went through, and what the method returns.
updateStatus(st, issueId, statusName, ok) ==
    IF ok THEN [st EXCEPT ![issueId] = statusName] ELSE st

lockTask(st, issueId, ok) ==
    IF ok
    THEN [locked |-> TRUE, status |-> [st EXCEPT ![issueId] = IN_PROGRESS]]
    ELSE [locked |-> FALSE, status |-> st]

RECURSIVE SelectItems(_, _)
SelectItems(order, S) ==
    IF order = <<>> THEN <<>>
    ELSE IF Head(order) \in S THEN <<Head(order)>> \o SelectItems(Tail(order), S)
    ELSE SelectItems(Tail(order), S)

\* The mutation of getTasksByStatus that also lists the issues in progress.
getTasksByStatusOrClaimed(st, statusName) ==
    SelectItems(<<"X1", "X2">>, {i \in Items : st[i] \in {statusName, IN_PROGRESS}})

\* getTasksByStatus: the issues of the team in that state, in the tracker's order
getTasksByStatus(st, statusName) ==
    SelectItems(<<"X1", "X2">>, {i \in Items : st[i] = statusName})

\* ------------------------------------------------------------------ queue
\* TASK_TIMEOUT, in milliseconds
TaskTimeout == 10800000
\* the three @Process handlers of the queue, one job at a time each
Concurrency == 3

\* The mutations of the options of the execute job: a fixed backoff, five
\* attempts.
ExecuteJobOptsFixedBackoff ==
    [attempts |-> 3, backoff |-> [type |-> "fixed", delay |-> 5000],
     timeout |-> TaskTimeout, removeOnComplete |-> TRUE, removeOnFail |-> FALSE]
ExecuteJobOptsFiveAttempts ==
    [attempts |-> 5, backoff |-> [type |-> "exponential", delay |-> 5000],
     timeout |-> TaskTimeout, removeOnComplete |-> TRUE, removeOnFail |-> FALSE]

\* The mutation of the options of the retry job: no hard timeout.
RetryJobOptsNoTimeout ==
    [attempts |-> 3, backoff |-> [type |-> "exponential", delay |-> 5000],
     timeout |-> 0, removeOnComplete |-> TRUE, removeOnFail |-> FALSE]

\* the options of taskQueue.add in pollTasks, pollReviewTasks and retryTask
ExecuteJobOpts ==
    [attempts |-> 3, backoff |-> [type |-> "exponential", delay |-> 5000],
     timeout |-> TaskTimeout, removeOnComplete |-> TRUE, removeOnFail |-> FALSE]
FeedbackJobOpts ==
    [attempts |-> 3, backoff |-> [type |-> "exponential", delay |-> 5000],
     timeout |-> TaskTimeout, removeOnComplete |-> TRUE, removeOnFail |-> FALSE]
RetryJobOpts ==
    [attempts |-> 3, backoff |-> [type |-> "exponential", delay |-> 5000],
     timeout |-> TaskTimeout, removeOnComplete |-> TRUE, removeOnFail |-> FALSE]

RECURSIVE Pow2(_)
Pow2(n) == IF n <= 0 THEN 1 ELSE 2 * Pow2(n - 1)

\* The delay before the next attempt, after attemptsMade failed attempts.
BackoffDelay(opts, attemptsMade) ==
    IF opts.backoff.type = "exponential"
    THEN opts.backoff.delay * Pow2(attemptsMade - 1)
    ELSE opts.backoff.delay

\* taskQueue.add(name, data, opts)
NewJob(name, item, commentIds, sessionId, opts) ==
    [name |-> name, item |-> item, commentIds |-> commentIds, sessionId |-> sessionId,
     opts |-> opts, attemptsMade |-> 0, state |-> "waiting", delays |-> <<>>,
     invocations |-> 0, hooked |-> FALSE]

\* A failed or timed-out attempt: requeued after the backoff delay while
\* attempts remain, else terminally failed and handed to the failure hook.
FailJob(job) ==
    LET n == job.attemptsMade + 1
    IN  IF n < job.opts.attempts
        THEN [job EXCEPT !.attemptsMade = n, !.state = "delayed",
                         !.delays = Append(@, BackoffDelay(job.opts, n))]
        ELSE [job EXCEPT !.attemptsMade = n, !.state = "failed", !.hooked = TRUE]

\* A handler that returned: the job is completed and removed.
CompleteJob(job) == [job EXCEPT !.state = "completed"]


\* ------------------------------------------------------------------ state
PollerIds == {"p1", "p2"}

VARIABLES
    status,        \* tracker: the state of each issue
    comments,      \* tracker: the comments of each issue, oldest first
    jobs,          \* task-queue: every job added, by job id
    runs,          \* the handler invocations that have not returned yet
    runningTasks,  \* MonitorService.runningTasks
    taskHistory,   \* MonitorService.taskHistory
    sessions,      \* table task_sessions
    processed,     \* table processed_comments: comment id -> task id
    isPaused,      \* MonitorService.isPaused and the paused queue
    taskPoller,    \* TaskPollerService of each instance: isPolling, tasks left
    reviewPoller,  \* ReviewPollerService: isPolling, tasks left
    retryReqs,     \* retryTask requests between their check and their writes
    envLeft,       \* what is left of the behaviour's budget
    faultsLeft,    \* failing calls of the tracker and the queue still allowed
    lastCaptured,  \* per issue, the session id the agent reported last
    overlapped,    \* issues that had two handler invocations at the same time
    lateProgress,  \* what taskProgress calls for completed ids have done
    lockTrue,      \* per issue, the lockTask calls that returned true
    lockFalse,     \* the lockTask calls that returned false
    gate,          \* a title, a description and the route checkNeedsReview gave
    marking,       \* the last call that marked comments, and the ids marked so far
    call,          \* the last call of the monitor made from outside a handler
    maxConcurrentTasks,  \* app.maxConcurrentTasks, from MAX_CONCURRENT_TASKS
    storeFaultsLeft,     \* throwing writes of the session store still allowed
    lifecycle,           \* per issue, where the task:update events broadcast so far stand
    merge,               \* the last merge of comments into a feedback: its input and result
    stats                \* the getDashboardStats call of the behaviour: where it is, what it read

vars == <<status, comments, jobs, runs, runningTasks, taskHistory, sessions,
          processed, isPaused, taskPoller, reviewPoller, retryReqs, envLeft,
          faultsLeft, lastCaptured, overlapped, lateProgress, lockTrue, lockFalse, gate,
                   marking, call,
                   maxConcurrentTasks, storeFaultsLeft, lifecycle, merge, stats>>

trackerVars == <<status, comments>>
monitorVars == <<runningTasks, taskHistory, sessions>>
pollerVars == <<taskPoller, reviewPoller>>
budgetVars == <<envLeft, faultsLeft>>
ghostVars == <<lastCaptured, overlapped, lateProgress, lockTrue, lockFalse, gate,
                   marking, call,
                   maxConcurrentTasks, storeFaultsLeft, lifecycle, merge, stats>>

\* A poller between passes; passes counts the passes in flight and skipped
\* tells that a timer fire has returned at the guard during this pass.
IdlePoller == [isPolling |-> FALSE, tasks |-> <<>>, passes |-> 0, skipped |-> FALSE]
\* this.isPolling = true ... the list of issues: a pass over an empty list
\* ends at once in its finally block.
BeginPass(pl, tasks) ==
    IF tasks = <<>> THEN IdlePoller
    ELSE [isPolling |-> TRUE, tasks |-> tasks, passes |-> pl.passes + 1,
          skipped |-> pl.skipped]
\* The loop moves on; after the last issue the finally block resets isPolling.
NextTurn(pl, rest) ==
    IF rest = <<>> THEN IdlePoller ELSE [pl EXCEPT !.tasks = rest]
NoGate == [title |-> <<>>, description |-> <<>>, route |-> ""]
NoCall == [op |-> "", taskId |-> "", events |-> <<>>, error |-> ""]
NoMarking == [before |-> EmptyMap, commentIds |-> <<>>, taskId |-> "", failAt |-> 0,
              marked |-> {}]

\* MAX_CONCURRENT_TASKS || '3'
DefaultMaxConcurrentTasks == 3

\* The configuration left at its defaults, and a session store whose writes
\* go through.
Defaults ==
    /\ maxConcurrentTasks = DefaultMaxConcurrentTasks
    /\ storeFaultsLeft = 0

\* The state after construction, without the tracker's issues.
NoStats == [pc |-> "idle", queue |-> <<>>, linear |-> <<>>, runningTasks |-> {}]
NoMerge == [taskId |-> "", feedback |-> "", commentIds |-> <<>>]

InitCore ==
    /\ comments = [i \in Items |-> <<>>]
    /\ jobs = <<>>
    /\ runs = {}
    /\ runningTasks = EmptyMap
    /\ taskHistory = EmptyMap
    /\ sessions = EmptyMap
    /\ processed = EmptyMap
    /\ isPaused = FALSE
    /\ taskPoller = [p \in PollerIds |-> IdlePoller]
    /\ reviewPoller = IdlePoller
    /\ retryReqs = {}
    /\ lastCaptured = [i \in Items |-> NullSession]
    /\ overlapped = {}
    /\ lateProgress = "none"
    /\ lockTrue = [i \in Items |-> 0]
    /\ lockFalse = 0
    /\ marking = NoMarking
    /\ call = NoCall
    /\ lifecycle = [i \in Items |-> "idle"]
    /\ merge = NoMerge
    /\ stats = NoStats

\* One issue of the team is in Todo and the other still in Backlog; the
\* tracker and the queue accept every call.
Init ==
    /\ \E i \in Items : status = [k \in Items |-> IF k = i THEN TODO ELSE BACKLOG]
    /\ InitCore
    /\ Defaults
    /\ envLeft = MaxEnv
    /\ faultsLeft = 0
    /\ gate = NoGate

\* The monitor as one step finds it, and as the step leaves it.
Monitor ==
    [running |-> runningTasks, history |-> taskHistory, store |-> sessions,
     events |-> <<>>]
SetMonitor(m) ==
    /\ runningTasks' = m.running
    /\ taskHistory' = m.history
    /\ sessions' = m.store

\* What a taskProgress call that took the monitor from m to m2 shows of the
\* calls made for an id that is completed and no longer running: "silent"
\* when it left the running map and the completed cache alone and broadcast
\* nothing, "loud" otherwise.
NoteProgress(m, m2, taskId) ==
    IF taskId \in DOMAIN m.running \/ taskId \notin DOMAIN m.history
    THEN lateProgress
    ELSE IF m2.running = m.running /\ m2.history = m.history /\ m2.events = m.events
    THEN (IF lateProgress = "loud" THEN "loud" ELSE "silent")
    ELSE "loud"

JobIds == 1..Len(jobs)
\* A call of the tracker or of the queue goes through, or fails while
\* failures are allowed.
Outcomes == IF faultsLeft > 0 THEN {TRUE, FALSE} ELSE {TRUE}
Cost(ok) == IF ok THEN 0 ELSE 1

\* --------------------------------------------------- TaskPollerService
\* The mutation of PollStart without the isPolling guard.
PollStartUnguarded(p) ==
    /\ getTasksByStatus(status, TODO) # <<>>
    /\ taskPoller' = [taskPoller EXCEPT
                        ![p] = BeginPass(@, getTasksByStatus(status, TODO))]
    /\ UNCHANGED monitorVars
    /\ UNCHANGED <<trackerVars, jobs, runs, processed, isPaused, reviewPoller,
                   retryReqs, budgetVars, ghostVars>>

\* pollTasks when the timer fires during a pass: if (this.isPolling) return.
PollSkip(p) ==
    /\ taskPoller[p].isPolling
    /\ taskPoller' = [taskPoller EXCEPT ![p].skipped = TRUE]
    /\ UNCHANGED monitorVars
    /\ UNCHANGED <<trackerVars, jobs, runs, processed, isPaused, reviewPoller,
                   retryReqs, budgetVars, ghostVars>>

\* The mutation of PollStart for a poller that rests while execution is
\* paused.
PollStartUnlessPaused(p) ==
    /\ ~isPaused
    /\ ~taskPoller[p].isPolling
    /\ taskPoller' = [taskPoller EXCEPT
                        ![p] = BeginPass(@, getTasksByStatus(status, TODO))]
    /\ UNCHANGED monitorVars
    /\ UNCHANGED <<trackerVars, jobs, runs, processed, isPaused, reviewPoller,
                   retryReqs, budgetVars, ghostVars>>

\* pollTasks up to the list of Todo issues; a fire while isPolling returns,
\* and a pass that finds no Todo issue ends at once in its finally block.
PollStart(p) ==
    /\ ~taskPoller[p].isPolling
    /\ taskPoller' = [taskPoller EXCEPT
                        ![p] = BeginPass(@, getTasksByStatus(status, TODO))]
    /\ UNCHANGED monitorVars
    /\ UNCHANGED <<trackerVars, jobs, runs, processed, isPaused, reviewPoller,
                   retryReqs, budgetVars, ghostVars>>

\* The mutation of PollItem without the finally block: an add that throws
\* leaves isPolling set with no pass running.
PollItemNoFinally(p) ==
    /\ taskPoller[p].isPolling
    /\ taskPoller[p].tasks # <<>>
    /\ LET task == Head(taskPoller[p].tasks)
           rest == Tail(taskPoller[p].tasks)
       IN  \E lockOk \in Outcomes :
             LET lk == lockTask(status, task, lockOk)
             IN  /\ status' = lk.status
                 /\ IF lk.locked
                    THEN /\ lockTrue' = [lockTrue EXCEPT ![task] = @ + 1]
                         /\ lockFalse' = lockFalse
                         /\ comments' = addComment(comments, task, "system", BodyAck)
                         /\ \E addOk \in Outcomes :
                              /\ faultsLeft' = faultsLeft - Cost(addOk)
                              /\ IF addOk
                                 THEN /\ envLeft > 0
                                      /\ envLeft' = envLeft - 1
                                      /\ jobs' = Append(jobs,
                                            NewJob("execute", task, <<>>, NullSession,
                                                   ExecuteJobOpts))
                                      /\ taskPoller' = [taskPoller EXCEPT
                                            ![p] = NextTurn(@, rest)]
                                 ELSE /\ UNCHANGED <<jobs, envLeft>>
                                      /\ taskPoller' = [taskPoller EXCEPT
                                                          ![p].tasks = <<>>]
                    ELSE /\ lockFalse' = lockFalse + 1
                         /\ faultsLeft' = faultsLeft - 1
                         /\ UNCHANGED <<lockTrue, comments, jobs, envLeft>>
                         /\ taskPoller' = [taskPoller EXCEPT
                                             ![p] = NextTurn(@, rest)]
    /\ UNCHANGED monitorVars
    /\ UNCHANGED <<runs, processed, isPaused, reviewPoller, retryReqs,
                   lastCaptured, overlapped, lateProgress, gate,
                   marking, call,
                   maxConcurrentTasks, storeFaultsLeft, lifecycle, merge, stats>>

\* The mutation of AfterThrow that catches the error inside the loop and
\* goes on with the next issue.
AfterThrowContinues(pl, rest) == NextTurn(pl, rest)

\* An await of the loop of pollTasks throws: the catch block logs, the
\* finally block resets isPolling, and the rest of the list is dropped.
AfterThrow(pl, rest) == IdlePoller

\* One turn of the loop of pollTasks: lockTask, the comment, taskQueue.add;
\* an add that throws ends the pass in the catch block.
PollItem(p) ==
    /\ taskPoller[p].isPolling
    /\ taskPoller[p].tasks # <<>>
    /\ LET task == Head(taskPoller[p].tasks)
           rest == Tail(taskPoller[p].tasks)
       IN  \E lockOk \in Outcomes :
             LET lk == lockTask(status, task, lockOk)
             IN  /\ status' = lk.status
                 /\ IF lk.locked
                    THEN /\ lockTrue' = [lockTrue EXCEPT ![task] = @ + 1]
                         /\ lockFalse' = lockFalse
                         /\ comments' = addComment(comments, task, "system", BodyAck)
                         /\ \E addOk \in Outcomes :
                              /\ faultsLeft' = faultsLeft - Cost(addOk)
                              /\ IF addOk
                                 THEN /\ envLeft > 0
                                      /\ envLeft' = envLeft - 1
                                      /\ jobs' = Append(jobs,
                                            NewJob("execute", task, <<>>, NullSession,
                                                   ExecuteJobOpts))
                                      /\ taskPoller' = [taskPoller EXCEPT
                                            ![p] = NextTurn(@, rest)]
                                 ELSE /\ UNCHANGED <<jobs, envLeft>>
                                      /\ taskPoller' = [taskPoller EXCEPT
                                                          ![p] = AfterThrow(@, rest)]
                    ELSE /\ lockFalse' = lockFalse + 1
                         /\ faultsLeft' = faultsLeft - 1
                         /\ UNCHANGED <<lockTrue, comments, jobs, envLeft>>
                         /\ taskPoller' = [taskPoller EXCEPT
                                             ![p] = NextTurn(@, rest)]
    /\ UNCHANGED monitorVars
    /\ UNCHANGED <<runs, processed, isPaused, reviewPoller, retryReqs,
                   lastCaptured, overlapped, lateProgress, gate,
                   marking, call,
                   maxConcurrentTasks, storeFaultsLeft, lifecycle, merge, stats>>

\* -------------------------------------------------- ReviewPollerService
\* pollReviewTasks up to the list of In Review issues.
ReviewStart ==
    /\ ~reviewPoller.isPolling
    /\ reviewPoller' = BeginPass(reviewPoller, getTasksByStatus(status, IN_REVIEW))
    /\ UNCHANGED monitorVars
    /\ UNCHANGED <<trackerVars, jobs, runs, processed, isPaused, taskPoller,
                   retryReqs, budgetVars, ghostVars>>

\* pollReviewTasks when the timer fires during a pass.
ReviewSkip ==
    /\ reviewPoller.isPolling
    /\ reviewPoller' = [reviewPoller EXCEPT !.skipped = TRUE]
    /\ UNCHANGED monitorVars
    /\ UNCHANGED <<trackerVars, jobs, runs, processed, isPaused, taskPoller,
                   retryReqs, budgetVars, ghostVars>>

\* The mutation of newUserComments that does not look at the marker.
newUserCommentsAnyBody(cs, ledger) ==
    SelectSeq(cs, LAMBDA c : ~isCommentProcessed(ledger, c.id))

\* comments.filter(c => !c.body.startsWith(robot) && !isCommentProcessed(c.id))
newUserComments(cs, ledger) ==
    SelectSeq(cs, LAMBDA c : ~startsWithRobot(c.body) /\ ~isCommentProcessed(ledger, c.id))

CommentIds(cs) == [k \in 1..Len(cs) |-> cs[k].id]

\* if (!session?.sessionId)
HasSessionId(store, taskId) ==
    /\ taskId \in DOMAIN store
    /\ store[taskId].sessionId # NullSession
    /\ store[taskId].sessionId # EmptySession

\* One turn of the loop of pollReviewTasks.
ReviewItem ==
    /\ reviewPoller.isPolling
    /\ reviewPoller.tasks # <<>>
    /\ LET task == Head(reviewPoller.tasks)
           rest == Tail(reviewPoller.tasks)
           fresh == newUserComments(getComments(comments, task), processed)
           next == NextTurn(reviewPoller, rest)
       IN  IF ~HasSessionId(sessions, task) \/ fresh = <<>>
           THEN /\ reviewPoller' = next
                /\ UNCHANGED <<jobs, budgetVars>>
           ELSE \E addOk \in Outcomes :
                  /\ faultsLeft' = faultsLeft - Cost(addOk)
                  /\ IF addOk
                     THEN /\ envLeft > 0
                          /\ envLeft' = envLeft - 1
                          /\ jobs' = Append(jobs,
                                NewJob("feedback", task, CommentIds(fresh),
                                       sessions[task].sessionId, FeedbackJobOpts))
                          /\ reviewPoller' = next
                     ELSE /\ UNCHANGED <<jobs, envLeft>>
                          /\ reviewPoller' = IdlePoller
    /\ UNCHANGED monitorVars
    /\ UNCHANGED <<trackerVars, runs, processed, isPaused, taskPoller, retryReqs,
                   ghostVars>>

\* ------------------------------------------------------ queue and workers
ActiveJobs == {j \in JobIds : jobs[j].state = "active"}

\* `[Feedback] ${task.title}`, `[Retry] ${task.title}`
TitleOf(name) ==
    IF name = "feedback" THEN "[Feedback] "
    ELSE IF name = "retry" THEN "[Retry] " ELSE ""

\* A handler invocation: its job, the attempt, where it stands, the session
\* id its agent reported, the tool calls so far, and whether a timeout has
\* abandoned it.
RunOf(j) == [job |-> j, att |-> jobs[j].attemptsMade + 1, pc |-> "init",
             sess |-> NullSession, tools |-> 0, zombie |-> FALSE]

SetRun(r, r2) == runs' = (runs \ {r}) \cup {r2}
EndRun(r) == runs' = runs \ {r}

\* What the end of a handler invocation does to its job: nothing when the
\* invocation was abandoned by a timeout.
Settle(r, job2) ==
    jobs' = IF r.zombie THEN jobs ELSE [jobs EXCEPT ![r.job] = job2]

\* The mutation of TakesJobs for a queue that ignores pause().
TakesJobsPaused == TRUE

\* taskQueue.pause() keeps the workers from taking further jobs until
\* taskQueue.resume(); handlers that run are left to finish.
TakesJobs == ~isPaused

\* Where the task:update events of one issue stand for a dashboard that
\* reads them in order: "idle" before the first run and after a terminal
\* event, "running" after a started event, "broken" once an event came that
\* the order started, updates, terminal does not allow.
Advance(state, kind) ==
    IF state = "broken" THEN "broken"
    ELSE IF kind = "started" THEN (IF state = "idle" THEN "running" ELSE "broken")
    ELSE IF kind = "update" THEN (IF state = "running" THEN "running" ELSE "broken")
    ELSE (IF state = "running" THEN "idle" ELSE "broken")

RECURSIVE AdvanceAll(_, _)
AdvanceAll(state, kinds) ==
    IF kinds = <<>> THEN state
    ELSE AdvanceAll(Advance(state, Head(kinds)), Tail(kinds))

\* The kind of the event a tracker call broadcast, none when the call that
\* took the monitor from m to m2 broadcast nothing.
Broadcast(m, m2, kind) ==
    IF Len(m2.events) > Len(m.events) THEN <<kind>> ELSE <<>>

Observe(taskId, kinds) ==
    lifecycle' = [lifecycle EXCEPT ![taskId] = AdvanceAll(@, kinds)]

\* A worker takes a waiting job and calls its handler, which runs up to the
\* first message of the agent: taskStarted, in handleFeedback
\* updateStatus(In Progress) and the comment, in handleRetry the comment,
\* and the first onProgress of executeTask / executeFeedback.
Dequeue(j) ==
    /\ j \in JobIds
    /\ jobs[j].state = "waiting"
    /\ TakesJobs
    /\ Cardinality(ActiveJobs) < Concurrency
    /\ LET job == jobs[j]
           item == job.item
           r == RunOf(j)
           m1 == taskStarted(Monitor, item, TitleOf(job.name), <<j, r.att>>)
           m2 == taskProgress(m1, item, "start", 10)
       IN  /\ jobs' = [jobs EXCEPT ![j].state = "active", ![j].invocations = @ + 1]
           /\ runs' = runs \cup {r}
           /\ SetMonitor(m2)
           /\ Observe(item, Broadcast(Monitor, m1, "started")
                             \o Broadcast(m1, m2, "update"))
           /\ lateProgress' = NoteProgress(m1, m2, item)
           /\ overlapped' = IF \E o \in runs : jobs[o.job].item = item
                            THEN overlapped \cup {item} ELSE overlapped
           /\ IF job.name = "feedback"
              THEN \E ok \in Outcomes :
                     /\ faultsLeft' = faultsLeft - Cost(ok)
                     /\ status' = updateStatus(status, item, IN_PROGRESS, ok)
                     /\ comments' = addComment(comments, item, "system",
                                               BodyProcessingFeedback)
              ELSE /\ faultsLeft' = faultsLeft
                   /\ status' = status
                   /\ comments' = IF job.name = "retry"
                                  THEN addComment(comments, item, "system", BodyRetrying)
                                  ELSE comments
    /\ UNCHANGED <<processed, isPaused, pollerVars, retryReqs, envLeft,
                   lastCaptured, lockTrue, lockFalse, gate,
                   marking, call,
                   maxConcurrentTasks, storeFaultsLeft, merge, stats>>

\* The system/init message of the agent: onSessionId.
AgentInit(r) ==
    /\ r \in runs
    /\ r.pc = "init"
    /\ LET item == jobs[r.job].item
           sid == <<r.job, r.att>>
       IN  /\ SetMonitor(taskSessionId(Monitor, item, sid))
           /\ Observe(item, Broadcast(Monitor, taskSessionId(Monitor, item, sid),
                                       "update"))
           /\ lastCaptured' = [lastCaptured EXCEPT ![item] = sid]
           /\ SetRun(r, [r EXCEPT !.pc = "agent", !.sess = sid])
    /\ UNCHANGED <<trackerVars, jobs, processed, isPaused, pollerVars, retryReqs,
                   budgetVars, overlapped, lateProgress, lockTrue, lockFalse, gate,
                   marking, call,
                   maxConcurrentTasks, storeFaultsLeft, merge, stats>>

Min(a, b) == IF a < b THEN a ELSE b

\* The mutation of ToolProgress without the cap.
ToolProgressUncapped(toolCallCount) == 20 + toolCallCount * 15

\* lastProgress = Math.min(90, 20 + toolCallCount * 15)
ToolProgress(toolCallCount) == Min(90, 20 + toolCallCount * 15)

\* A tool_use block of the agent: onToolUse.
AgentTool(r) ==
    /\ r \in runs
    /\ r.pc = "agent"
    /\ r.tools < MaxTools
    /\ LET item == jobs[r.job].item
           m2 == taskProgress(Monitor, item, "tool", ToolProgress(r.tools + 1))
       IN  /\ SetMonitor(m2)
           /\ Observe(item, Broadcast(Monitor, m2, "update"))
           /\ lateProgress' = NoteProgress(Monitor, m2, item)
    /\ SetRun(r, [r EXCEPT !.tools = @ + 1])
    /\ UNCHANGED <<trackerVars, jobs, processed, isPaused, pollerVars, retryReqs,
                   budgetVars, lastCaptured, overlapped, lockTrue, lockFalse, gate,
                   marking, call,
                   maxConcurrentTasks, storeFaultsLeft, merge, stats>>

\* The comments a handler posts after a successful agent run, oldest first:
\* the summary of the agent run, then what the review gate asks for.
SuccessComments(name, review) ==
    <<BodySummary>> \o
    (IF name = "feedback" THEN <<>>
     ELSE IF review
     THEN <<IF name = "retry" THEN BodyRetryAwaitingReview ELSE BodyAwaitingReview>>
     ELSE IF name = "retry" THEN <<BodyRetrySuccessful>> ELSE <<>>)

\* The comments of a failed run: the one of the agent service when the query
\* threw, then the one of the handler's catch block.
FailureComments(out) ==
    (IF out = "throw" THEN <<BodyFailed>> ELSE <<>>) \o <<BodyFailed>>

RECURSIVE addComments(_, _, _)
addComments(cs, issueId, bodies) ==
    IF bodies = <<>> THEN cs
    ELSE addComments(addComment(cs, issueId, "system", Head(bodies)), issueId,
                     Tail(bodies))

\* How a run ends: "ok" the agent finished and the handler completed,
\* "marker" the agent's text holds the failure marker, "throw" the query threw,
\* "store" the agent finished and completeTask threw inside taskCompleted(true).
RunOutcomes == {"ok", "marker", "throw", "store"}

\* The end of executeTask / executeFeedback and the rest of the handler. A
\* successful handleTask / handleRetry applies the review gate and completes; handleFeedback marks its comments and
\* completes; a failed run goes through the catch block: status Failed, the
\* comment, taskCompleted(false), and the error thrown to the queue. The
\* "store" outcome reaches the catch block from the last statement of the
\* try block, after the review gate has set the status and posted its comment.
AgentEnd(r, out) ==
    /\ r \in runs
    /\ r.pc \in {"init", "agent"}
    /\ r.pc = "init" => out = "throw"
    /\ out \in {"marker", "throw"} => envLeft > 0
    /\ out = "store" => storeFaultsLeft > 0 /\ jobs[r.job].item \in DOMAIN runningTasks
    /\ LET job == jobs[r.job]
           item == job.item
           review == NeedsReview[item]
           agentOk == out \in {"ok", "store"}
           failed == IF agentOk THEN 0 ELSE 1
           m1 == taskProgress(Monitor, item, IF agentOk THEN "done" ELSE "failed", 100)
           m2 == IF out = "store" THEN taskCompletedThrows(m1, item, TRUE) ELSE m1
           m3 == taskCompleted(m2, item, out = "ok")
       IN  /\ lateProgress' = NoteProgress(Monitor, m1, item)
           /\ Observe(item, Broadcast(Monitor, m1, "update")
                             \o Broadcast(m2, m3, "terminal"))
           /\ processed' = IF job.name = "feedback"
                            THEN markCommentsProcessed(processed, job.commentIds, item)
                            ELSE processed
           /\ comments' = addComments(comments, item,
                              IF agentOk
                              THEN SuccessComments(job.name, review)
                                   \o (IF out = "store" THEN <<BodyFailed>> ELSE <<>>)
                              ELSE FailureComments(out))
           /\ envLeft' = envLeft - failed
           /\ storeFaultsLeft' = storeFaultsLeft - (IF out = "store" THEN 1 ELSE 0)
           /\ IF out = "ok" /\ job.name = "feedback"
              THEN UNCHANGED <<status, faultsLeft>>
              ELSE IF out = "store"
              THEN /\ faultsLeft' = faultsLeft
                   /\ status' = updateStatus(status, item, FAILED, TRUE)
              ELSE \E ok \in Outcomes :
                     /\ faultsLeft' = faultsLeft - Cost(ok)
                     /\ status' = updateStatus(status, item,
                                      IF out # "ok" THEN FAILED
                                      ELSE IF review THEN IN_REVIEW ELSE DONE, ok)
           /\ SetMonitor(m3)
           /\ Settle(r, IF out = "ok" THEN CompleteJob(job) ELSE FailJob(job))
           /\ EndRun(r)
    /\ UNCHANGED <<isPaused, pollerVars, retryReqs, lastCaptured, overlapped, lockTrue, lockFalse, gate, marking, call, maxConcurrentTasks, merge, stats>>

\* The job's timeout passes while its handler runs: the attempt counts as
\* failed and the handler is left running.
Timeout(r) ==
    /\ r \in runs
    /\ ~r.zombie
    /\ envLeft > 0
    /\ envLeft' = envLeft - 1
    /\ jobs' = [jobs EXCEPT ![r.job] = FailJob(jobs[r.job])]
    /\ SetRun(r, [r EXCEPT !.zombie = TRUE])
    /\ UNCHANGED <<trackerVars, monitorVars, processed, isPaused, pollerVars,
                   retryReqs, faultsLeft, ghostVars>>

\* The backoff delay of a requeued job has passed.
Promote(j) ==
    /\ j \in JobIds
    /\ jobs[j].state = "delayed"
    /\ jobs' = [jobs EXCEPT ![j].state = "waiting"]
    /\ UNCHANGED <<trackerVars, monitorVars, runs, processed, isPaused, pollerVars,
                   retryReqs, budgetVars, ghostVars>>

\* ------------------------------------------------- operator and reviewer
\* pauseExecution: taskQueue.pause()
Pause ==
    /\ envLeft > 0
    /\ envLeft' = envLeft - 1
    /\ isPaused' = TRUE
    /\ UNCHANGED <<trackerVars, jobs, runs, monitorVars, processed, pollerVars,
                   retryReqs, faultsLeft, ghostVars>>

\* resumeExecution: taskQueue.resume()
Resume ==
    /\ isPaused' = FALSE
    /\ UNCHANGED <<trackerVars, jobs, runs, monitorVars, processed, pollerVars,
                   retryReqs, budgetVars, ghostVars>>

\* The reviewer comments on an issue that awaits review.
HumanComment(i) ==
    /\ envLeft > 0
    /\ status[i] = IN_REVIEW
    /\ envLeft' = envLeft - 1
    /\ comments' = addComment(comments, i, "human", BodyHuman)
    /\ UNCHANGED <<status, jobs, runs, monitorVars, processed, isPaused, pollerVars,
                   retryReqs, faultsLeft, ghostVars>>

\* getTaskSessionId: the running entry's session id, else the stored one
getTaskSessionId(running, store, taskId) ==
    IF taskId \in DOMAIN running /\ running[taskId].sessionId # NullSession
    THEN running[taskId].sessionId
    ELSE IF HasSessionId(store, taskId) THEN store[taskId].sessionId
    ELSE NullSession

\* A retryTask call that has passed its checks and awaits its first write:
\* the session id it read, how many calls for the issue were in that state
\* before it, and how many retry jobs the issue had.
RetryRequest(i) ==
    [item |-> i,
     sessionId |-> getTaskSessionId(runningTasks, sessions, i),
     n |-> Cardinality({q \in retryReqs : q.item = i}) + 1,
     jobsBefore |-> Cardinality({j \in JobIds :
                                   jobs[j].name = "retry" /\ jobs[j].item = i})]

\* The mutation of RetryCheck that does not look at the issue's state.
RetryCheckAnyState(i) ==
    /\ envLeft > 1
    /\ getTaskSessionId(runningTasks, sessions, i) # NullSession
    /\ envLeft' = envLeft - 2
    /\ retryReqs' = retryReqs \cup
          {RetryRequest(i)}
    /\ UNCHANGED <<trackerVars, jobs, runs, monitorVars, processed, isPaused,
                   pollerVars, faultsLeft, ghostVars>>

\* An id the tracker does not know: getIssueWithState returns null.
UnknownId == "X9"

\* retryTask when one of its checks throws: NotFoundException for an unknown
\* id, BadRequestException for an issue that is not in Failed or has no
\* session id; the exception is rethrown to the caller.
RetryReject(i) ==
    /\ i \in Items =>
          \/ status[i] # FAILED
          \/ getTaskSessionId(runningTasks, sessions, i) = NullSession
    /\ call' = [op |-> "retryTask", taskId |-> i, events |-> <<>>,
                error |-> IF i \notin Items THEN "NotFoundException"
                          ELSE "BadRequestException"]
    /\ UNCHANGED <<trackerVars, jobs, runs, monitorVars, processed, isPaused,
                   pollerVars, retryReqs, budgetVars, lastCaptured, overlapped,
                   lateProgress, lockTrue, lockFalse, gate, marking,
                   maxConcurrentTasks, storeFaultsLeft, lifecycle, merge, stats>>

\* retryTask up to its first write: the issue is found, its state is Failed
\* and a session id is known; otherwise the request is rejected. The request
\* and the job it will add are paid for here.
RetryCheck(i) ==
    /\ envLeft > 1
    /\ status[i] = FAILED
    /\ getTaskSessionId(runningTasks, sessions, i) # NullSession
    /\ envLeft' = envLeft - 2
    /\ retryReqs' = retryReqs \cup
          {RetryRequest(i)}
    /\ UNCHANGED <<trackerVars, jobs, runs, monitorVars, processed, isPaused,
                   pollerVars, faultsLeft, ghostVars>>

\* retryTask from updateStatus(In Progress) to the end: the comment and the
\* retry job.
RetryProceed(q) ==
    /\ q \in retryReqs
    /\ \E ok \in Outcomes :
         /\ faultsLeft' = faultsLeft - Cost(ok)
         /\ status' = updateStatus(status, q.item, IN_PROGRESS, ok)
    /\ comments' = addComment(comments, q.item, "system", BodyManualRetry)
    /\ jobs' = Append(jobs, NewJob("retry", q.item, <<>>, q.sessionId, RetryJobOpts))
    /\ retryReqs' = retryReqs \ {q}
    /\ UNCHANGED <<runs, monitorVars, processed, isPaused, pollerVars, envLeft,
                   ghostVars>>

\* -------------------------------------------------------------- behaviour
Next ==
    \/ PollStart("p1")
    \/ PollSkip("p1")
    \/ PollItem("p1")
    \/ ReviewStart
    \/ ReviewSkip
    \/ ReviewItem
    \/ \E j \in JobIds : Dequeue(j)
    \/ \E r \in runs : AgentInit(r)
    \/ \E r \in runs : AgentTool(r)
    \/ \E r \in runs : \E out \in RunOutcomes : AgentEnd(r, out)
    \/ \E r \in runs : Timeout(r)
    \/ \E j \in JobIds : Promote(j)
    \/ Pause
    \/ Resume
    \/ \E i \in Items : HumanComment(i)
    \/ \E i \in Items : RetryCheck(i)
    \/ \E q \in retryReqs : RetryProceed(q)

Spec == Init /\ [][Next]_vars


\* ---------------------------------------------------------------- two pollers
\* Two instances of the service poll the same team: both issues are in Todo
\* and calls of the tracker and of the queue may fail.
ClaimInit ==
    /\ status = [i \in Items |-> TODO]
    /\ InitCore
    /\ Defaults
    /\ envLeft = MaxEnv
    /\ faultsLeft = MaxFaults
    /\ gate = NoGate

ClaimNext ==
    \/ \E p \in PollerIds : PollStart(p)
    \/ \E p \in PollerIds : PollItem(p)

ClaimSpec == ClaimInit /\ [][ClaimNext]_vars

\* ---------------------------------------------------------------- review gate
\* Titles and descriptions of issues, as the tracker may hand them over.
WriteChangelog == <<"W", "r", "i", "t", "e", " ", "c", "h", "a", "n", "g", "e", "l", "o", "g">>
CheckStatus == <<"C", "h", "e", "c", "k", " ", "s", "t", "a", "t", "u", "s">>
DecodeLog == <<"D", "e", "c", "o", "d", "e", " ", "l", "o", "g">>
WriteUpper == <<"W", "R", "I", "T", "E">>
RotateKeys == <<"R", "o", "t", "a", "t", "e", " ", "k", "e", "y", "s">>
Tidy == <<"T", "i", "d", "y">>
Sen == <<"S", "e", "n">>
NoTitle == <<>>
Titles == {FixTypo, GenerateReport, WriteChangelog, CheckStatus, DecodeLog, WriteUpper, RotateKeys, Tidy, Sen, NoTitle}

NoDescription == <<>>
SendIt == <<"s", "e", "n", "d", " ", "i", "t">>
Scripted == <<"S", "c", "r", "i", "p", "t", "e", "d">>
NoAction == <<"n", "o", " ", "a", "c", "t", "i", "o", "n">>
CodE == <<"c", "o", "d", " ", "e">>
Rep == <<"r", "e", "p">>
Ort == <<"o", "r", "t">>
DMail == <<"d", " ", "m", "a", "i", "l">>
EmailTheTeam == <<"E", "M", "A", "I", "L", " ", "t", "h", "e", " ", "t", "e", "a", "m">>
Refresh == <<"R", "e", "f", "r", "e", "s", "h">>
Descriptions == {NoDescription, SendIt, Scripted, NoAction, CodE, Rep, Ort, DMail, EmailTheTeam, Refresh}

\* An issue reaches the end of a successful handleTask / handleRetry.
GateInit ==
    /\ status = [i \in Items |-> BACKLOG]
    /\ InitCore
    /\ Defaults
    /\ envLeft = 0
    /\ faultsLeft = 0
    /\ gate \in [title : Titles, description : Descriptions, route : {""}]

\* needsReview = checkNeedsReview(task); updateStatus(In Review) or
\* updateStatus(Done)
GateApply ==
    /\ gate.route = ""
    /\ gate' = [gate EXCEPT !.route =
                   IF checkNeedsReview(gate.title, gate.description)
                   THEN IN_REVIEW ELSE DONE]
    /\ UNCHANGED <<trackerVars, jobs, runs, monitorVars, processed, isPaused,
                   pollerVars, retryReqs, budgetVars, lastCaptured, overlapped,
                   lateProgress, lockTrue, lockFalse, marking, call,
                   maxConcurrentTasks, storeFaultsLeft, lifecycle, merge, stats>>

GateNext == GateApply

GateSpec == GateInit /\ [][GateNext]_vars

\* ------------------------------------------------------------------ fairness
\* The queue hands every waiting job to a free worker and promotes every
\* delayed job when its delay has passed; every handler invocation goes on
\* to its end. Nothing makes the operator resume a paused queue.
QueueStep ==
    \/ \E j \in JobIds : Dequeue(j)
    \/ \E j \in JobIds : Promote(j)
HandlerStep ==
    \/ \E r \in runs : AgentInit(r)
    \/ \E r \in runs : AgentEnd(r, "ok")

\* The poller, the queue with its workers, the operator's pause, resume and
\* manual retry.
QueueNext ==
    \/ PollStart("p1")
    \/ PollItem("p1")
    \/ \E j \in JobIds : Dequeue(j)
    \/ \E r \in runs : AgentInit(r)
    \/ \E r \in runs : AgentTool(r)
    \/ \E r \in runs : \E out \in RunOutcomes : AgentEnd(r, out)
    \/ \E r \in runs : Timeout(r)
    \/ \E j \in JobIds : Promote(j)
    \/ Pause
    \/ Resume
    \/ \E i \in Items : RetryCheck(i)
    \/ \E q \in retryReqs : RetryProceed(q)

QueueSpec ==
    Init /\ [][QueueNext]_vars /\ WF_vars(QueueStep) /\ WF_vars(HandlerStep)

\* ------------------------------------------------------------- the ledger
\* The session store by itself: comment ids are marked one at a time and in
\* batches, for either issue, and an insert of a batch may throw.
MaxBatch == 2
CommentPool == {<<"X1", 1>>, <<"X1", 2>>, <<"X2", 1>>}
Batches == UNION {[1..n -> CommentPool] : n \in 1..MaxBatch}

LedgerInit ==
    /\ status = [i \in Items |-> BACKLOG]
    /\ InitCore
    /\ Defaults
    /\ envLeft = 0
    /\ faultsLeft = 0
    /\ gate = NoGate

LedgerUnchanged ==
    UNCHANGED <<trackerVars, jobs, runs, monitorVars, isPaused, pollerVars,
                retryReqs, budgetVars, lastCaptured, overlapped, lateProgress,
                lockTrue, lockFalse, gate, call,
                   maxConcurrentTasks, storeFaultsLeft, lifecycle, merge, stats>>

\* sessionStore.markCommentProcessed(commentId, taskId)
MarkOne(c, taskId) ==
    /\ processed' = markCommentProcessed(processed, c, taskId)
    /\ marking' = [before |-> processed, commentIds |-> <<c>>, taskId |-> taskId,
                   failAt |-> 0, marked |-> marking.marked \cup {c}]
    /\ LedgerUnchanged

\* sessionStore.markCommentsProcessed(commentIds, taskId)
MarkMany(commentIds, taskId, failAt) ==
    /\ processed' = transaction(processed, commentIds, taskId, failAt)
    /\ marking' = [before |-> processed, commentIds |-> commentIds,
                   taskId |-> taskId, failAt |-> failAt,
                   marked |-> IF failAt = 0
                              THEN marking.marked \cup Range(commentIds)
                              ELSE marking.marked]
    /\ LedgerUnchanged

LedgerNext ==
    \/ \E c \in CommentPool : \E t \in Items : MarkOne(c, t)
    \/ \E b \in Batches : \E t \in Items : \E f \in 0..Len(b) : MarkMany(b, t, f)

LedgerSpec == LedgerInit /\ [][LedgerNext]_vars

\* ------------------------------------------------------------- the monitor
\* The monitor by itself: its four task methods are called in any order, for
\* either issue, also for ids that are not running.
MaxSteps == 1
Clock == {<<1, 1>>, <<1, 2>>}

MonitorInit ==
    /\ status = [i \in Items |-> BACKLOG]
    /\ InitCore
    /\ Defaults
    /\ envLeft = 0
    /\ faultsLeft = 0
    /\ gate = NoGate

MonitorUnchanged ==
    UNCHANGED <<trackerVars, jobs, runs, processed, isPaused, pollerVars,
                retryReqs, budgetVars, lastCaptured, overlapped, lateProgress,
                lockTrue, lockFalse, gate, marking, maxConcurrentTasks,
                storeFaultsLeft, merge, stats>>

\* The kind of task:update event a tracker method broadcasts.
KindOf(op) ==
    IF op = "taskStarted" THEN "started"
    ELSE IF op = "taskCompleted" THEN "terminal" ELSE "update"

\* The call op(taskId, ...) takes the monitor to m.
Called(op, taskId, m) ==
    /\ SetMonitor(m)
    /\ Observe(taskId, Broadcast(Monitor, m, KindOf(op)))
    /\ call' = [op |-> op, taskId |-> taskId, events |-> m.events, error |-> ""]
    /\ MonitorUnchanged

CallStarted(i, now) == Called("taskStarted", i, taskStarted(Monitor, i, "", now))

CallProgress(i) ==
    /\ i \in DOMAIN runningTasks => Len(runningTasks[i].steps) < MaxSteps
    /\ Called("taskProgress", i, taskProgress(Monitor, i, "tool", ToolProgress(1)))

CallSessionId(i, sid) == Called("taskSessionId", i, taskSessionId(Monitor, i, sid))

CallCompleted(i, success) ==
    Called("taskCompleted", i, taskCompleted(Monitor, i, success))

MonitorNext ==
    \/ \E i \in Items : \E now \in Clock : CallStarted(i, now)
    \/ \E i \in Items : CallProgress(i)
    \/ \E i \in Items : \E sid \in Clock : CallSessionId(i, sid)
    \/ \E i \in Items : \E success \in BOOLEAN : CallCompleted(i, success)

MonitorSpec == MonitorInit /\ [][MonitorNext]_vars

\* --------------------------------------------------------- manual retries
\* The queue with its workers and the operator, whose retry requests are
\* made for any id at any time.
RetryNext ==
    \/ QueueNext
    \/ \E i \in Items \cup {UnknownId} : RetryReject(i)

RetrySpec == Init /\ [][RetryNext]_vars

\* ------------------------------------------------------ a lower task limit
\* MAX_CONCURRENT_TASKS=1, with both issues of the team in Todo.
LowLimit == 1

ConfigInit ==
    /\ status = [i \in Items |-> TODO]
    /\ InitCore
    /\ envLeft = MaxEnv
    /\ faultsLeft = 0
    /\ gate = NoGate
    /\ maxConcurrentTasks = LowLimit
    /\ storeFaultsLeft = 0

ConfigSpec == ConfigInit /\ [][QueueNext]_vars

\* ------------------------------------------------------- failing services
\* As Init, with the tracker and the queue allowed to fail a call.
FaultInit ==
    /\ \E i \in Items : status = [k \in Items |-> IF k = i THEN TODO ELSE BACKLOG]
    /\ InitCore
    /\ Defaults
    /\ envLeft = MaxEnv
    /\ faultsLeft = MaxFaults
    /\ gate = NoGate

FaultSpec == FaultInit /\ [][Next]_vars

\* ==================================================================== claims
ItemOf(r) == jobs[r.job].item
FeedbackJobs == {j \in JobIds : jobs[j].name = "feedback"}
\* the author of the comment with that id
AuthorOf(c) == comments[c[1]][c[2]].author

\* C1: over all interleavings of the pollers, the manual retry and the
\* queue's re-attempts, no two jobs for the same issue are being processed
\* at the same time.
C1_NoConcurrentJobs ==
    \A j1 \in ActiveJobs : \A j2 \in ActiveJobs :
        j1 # j2 => jobs[j1].item # jobs[j2].item

\* C2: of the lockTask calls made on an issue that never returns to Todo at
\* most one returns true; the issue has one acknowledgement comment per true
\* and no more execute jobs than that.
C2_SingleClaim ==
    \A i \in Items :
        /\ lockTrue[i] <= 1
        /\ Len(comments[i]) = lockTrue[i]
        /\ Cardinality({j \in JobIds : jobs[j].item = i}) <= lockTrue[i]

\* C3: every comment a person wrote is in the commentIds of at most one
\* feedback job ever added, so a second pass of the review poller with no
\* new comment adds no job for it.
C3_CommentInOneFeedbackJob ==
    \A j1 \in FeedbackJobs : \A j2 \in FeedbackJobs :
        j1 # j2 =>
            \A c \in Range(jobs[j1].commentIds) \cap Range(jobs[j2].commentIds) :
                AuthorOf(c) # "human"

\* C4: no feedback job carries a comment the system posted itself.
C4_NoSystemCommentInFeedback ==
    \A j \in FeedbackJobs :
        \A c \in Range(jobs[j].commentIds) : AuthorOf(c) # "system"

\* C5: while the runs on an issue follow one another, the stored session id
\* of the issue is the id the most recent capturing run reported, never an
\* earlier one.
C5_SessionIsMostRecent ==
    \A i \in Items :
        (i \notin overlapped /\ lastCaptured[i] # NullSession) =>
            /\ i \in DOMAIN sessions
            /\ sessions[i].sessionId = lastCaptured[i]

\* Two runs on an issue, one after the other, the second by another job, and
\* the store holds the id the second reported.
C5_Witness ==
    \E i \in Items :
        /\ i \notin overlapped
        /\ lastCaptured[i] # NullSession
        /\ lastCaptured[i][1] >= 2
        /\ sessions[i].sessionId = lastCaptured[i]

\* C6: in every state between a run's capture of its session id and the end
\* of the run, the stored session id of the issue is the captured id.
C6_CapturedIdIsStored ==
    \A r \in runs :
        r.sess # NullSession =>
            /\ ItemOf(r) \in DOMAIN sessions
            /\ sessions[ItemOf(r)].sessionId = r.sess

\* C7: a taskProgress call for an id that was completed and not started
\* again changes neither runningTasks nor taskHistory and broadcasts nothing.
C7_NoResurrection == lateProgress # "loud"

\* Such a call has been made.
C7_Witness == lateProgress = "silent"

AttemptsBounded ==
    \A j \in JobIds :
        LET job == jobs[j]
        IN  /\ job.invocations <= 3
            /\ job.state \in {"delayed", "waiting"} => job.attemptsMade < 3
            /\ job.attemptsMade >= 3 => job.state = "failed" /\ job.hooked
            /\ job.state = "failed" =>
                   \A r \in runs : r.job = j => r.zombie

\* A terminally failed job is never run again.
FailedForGood ==
    \A j \in JobIds :
        jobs[j].state = "failed" =>
            /\ jobs'[j].state = "failed"
            /\ jobs'[j].invocations = jobs[j].invocations

Settled(j) == j \in JobIds /\ jobs[j].state \in {"completed", "failed"}
EverySettles == \A j \in 1..MaxEnv : (j \in JobIds) ~> Settled(j)

\* C9 as stated: every job's handler is invoked at most three times, a
\* terminally failed job is never run again, and every job is eventually
\* completed or terminally failed.
C9_AsStated ==
    /\ []AttemptsBounded
    /\ [][FailedForGood]_vars
    /\ EverySettles

\* C9 as amended: the same, where the queue does not stay paused.
C9_BoundedAttempts ==
    /\ []AttemptsBounded
    /\ [][FailedForGood]_vars
    /\ (<>[](~isPaused)) => EverySettles

\* A job that used its three attempts, with the queue running.
C9_Witness ==
    \E j \in JobIds :
        /\ jobs[j].state = "failed"
        /\ jobs[j].invocations = 3
        /\ jobs[j].hooked
        /\ ~isPaused

\* the characters of kw stand in t from position off + 1 on
OccursAt(t, kw, off) == \A k \in 1..Len(kw) : t[off + k] = kw[k]
HasKeyword(t) ==
    \E kw \in REVIEW_KEYWORDS :
        \E off \in 0..(Len(t) - Len(kw)) : OccursAt(t, kw, off)

\* C10: the gate routes to In Review exactly when the lower-cased text
\* "title description" holds a trigger keyword, else to Done; "Write
\* changelog" goes to In Review and "Check status" to Done.
C10_ReviewGate ==
    gate.route # "" =>
        /\ gate.route =
             IF HasKeyword(toLowerCase(gate.title \o <<" ">> \o gate.description))
             THEN IN_REVIEW ELSE DONE
        /\ (gate.title = WriteChangelog /\ gate.description = NoDescription)
               => gate.route = IN_REVIEW
        /\ (gate.title = CheckStatus /\ gate.description = NoDescription)
               => gate.route = DONE

\* "Write changelog" has been routed.
C10_Witness ==
    /\ gate.title = WriteChangelog
    /\ gate.description = NoDescription
    /\ gate.route = IN_REVIEW

\* The only job ever added is the execute job of issue i, and its first
\* handler invocation returned with the agent's success.
ExecutedOnce(i) ==
    /\ Len(jobs) = 1
    /\ jobs[1].name = "execute"
    /\ jobs[1].item = i
    /\ jobs[1].state = "completed"
    /\ jobs[1].invocations = 1
    /\ jobs[1].attemptsMade = 0
    /\ runs = {}

\* C11: "Fix typo" holds no trigger keyword; once it is claimed and its
\* execute job has run with the agent succeeding, the tracker has it in
\* Done, runningTasks is empty and taskHistory holds one entry, for it, with
\* success = true.
C11_FixTypoDone ==
    ExecutedOnce("X1") =>
        /\ Task["X1"].title = FixTypo
        /\ status["X1"] = DONE
        /\ DOMAIN runningTasks = {}
        /\ DOMAIN taskHistory = {"X1"}
        /\ taskHistory["X1"].success

\* "Fix typo" has been executed.
C11_Witness == ExecutedOnce("X1") /\ lockTrue["X1"] = 1 /\ status["X1"] = DONE

\* Every job added for issue i has completed at its first invocation, and no
\* handler invocation is left.
AllCompletedAtOnce(i) ==
    /\ runs = {}
    /\ \A k \in JobIds :
         jobs[k].item = i =>
            /\ jobs[k].state = "completed"
            /\ jobs[k].invocations = 1
            /\ jobs[k].attemptsMade = 0

\* C12: after a feedback job whose agent run succeeded, the issue is in Done
\* or In Review and does not stay In Progress.
C12_FeedbackReachesGate ==
    \A j \in FeedbackJobs :
        /\ AllCompletedAtOnce(jobs[j].item)
        /\ \E c \in Range(jobs[j].commentIds) : AuthorOf(c) = "human"
        => status[jobs[j].item] \in {DONE, IN_REVIEW}

\* The step takes a request of retryTask for issue i to its end.
ManualRetryOf(i) == \E q \in retryReqs : q.item = i /\ q \notin retryReqs'

\* C13: an issue passes to Done or to In Review only from In Progress, and
\* an issue in Failed is moved on only by the manual retry, which puts it
\* back to In Progress; a re-attempt of the queue never takes it from Failed
\* to Done or In Review.
C13_StatusSequence ==
    [][\A i \in Items :
         /\ (status'[i] \in {DONE, IN_REVIEW} /\ status'[i] # status[i])
               => status[i] = IN_PROGRESS
         /\ (status[i] = FAILED /\ status'[i] # FAILED)
               => (status'[i] = IN_PROGRESS /\ ManualRetryOf(i))]_vars

\* Job j is the only job of its issue, an attempt of it has failed and the
\* queue holds it for a further attempt; no handler runs on it.
WillBeRetried(j) ==
    /\ jobs[j].state = "delayed"
    /\ jobs[j].attemptsMade < jobs[j].opts.attempts
    /\ \A k \in JobIds \ {j} : jobs[k].item # jobs[j].item
    /\ \A r \in runs : r.job # j

\* C15: a failed attempt that the queue will retry leaves no failure on
\* view: the issue is not in Failed and the completed cache holds no failed
\* entry for it; those appear only once the attempts are exhausted.
C15_FailureOnlyWhenExhausted ==
    \A j \in JobIds :
        WillBeRetried(j) =>
            /\ status[jobs[j].item] # FAILED
            /\ ~(/\ jobs[j].item \in DOMAIN taskHistory
                 /\ ~taskHistory[jobs[j].item].success)

\* What the tracker, the session store and the queue hold.
servicesVars == <<status, comments, sessions, processed, jobs>>

\* The step is a timer fire of a poller that meets a pass in flight.
FireDuringPass ==
    \/ \E p \in PollerIds :
         taskPoller[p].isPolling /\ ~taskPoller[p].skipped /\ taskPoller'[p].skipped
    \/ reviewPoller.isPolling /\ ~reviewPoller.skipped /\ reviewPoller'.skipped

\* C16: each poller has at most one pass in flight, and a timer fire that
\* arrives during a pass returns without a call to the tracker, the session
\* store or the queue.
C16_OnePassInFlight ==
    /\ [](/\ \A p \in PollerIds : taskPoller[p].passes <= 1
          /\ reviewPoller.passes <= 1)
    /\ [][FireDuringPass => UNCHANGED servicesVars]_vars

\* After the discovery poller's pass has claimed an issue, a timer fire of
\* the review poller has met its pass in flight.
C16_Witness ==
    /\ \E i \in Items : lockTrue[i] = 1
    /\ taskPoller["p1"].passes = 0
    /\ reviewPoller.passes = 1
    /\ reviewPoller.skipped

\* C14: the dashboard shows an issue as successfully completed only when
\* the tracker has accepted its transition to Done or In Review, also when
\* updateStatus returns false. Stated for the issues that only had their
\* execute job, with no run overlapping another.
C14_CompletedMeansAccepted ==
    \A i \in DOMAIN taskHistory :
        /\ taskHistory[i].success
        /\ i \notin DOMAIN runningTasks
        /\ i \notin overlapped
        /\ \A j \in JobIds : jobs[j].item = i => jobs[j].name = "execute"
        /\ \A q \in retryReqs : q.item # i
        => status[i] \in {DONE, IN_REVIEW}

\* The isPolling flag is set only while a pass runs its loop.
FlagMeansPass(pl) == pl.isPolling => (pl.tasks # <<>> /\ pl.passes = 1)

\* What a step may do to a poller: leave it alone, note a skipped fire, move
\* its pass on by one issue, or end the pass with the flag reset.
PassMovesOn(pl, pl2) ==
    pl.isPolling =>
        \/ pl2 = pl
        \/ pl2 = [pl EXCEPT !.skipped = TRUE]
        \/ pl2 = [pl EXCEPT !.tasks = Tail(pl.tasks)]
        \/ pl2 = IdlePoller

\* C17: an error in a pass of either poller is caught within the pass and
\* isPolling is reset when the pass ends, so no poller is left with the flag
\* set and no pass running: a pass in flight can always take its next turn,
\* each turn moves it on or ends it, and a poller between passes can start
\* one.
C17_FlagAlwaysReset ==
    /\ [](/\ \A p \in PollerIds : FlagMeansPass(taskPoller[p])
          /\ FlagMeansPass(reviewPoller)
          /\ \A p \in PollerIds :
               IF taskPoller[p].isPolling
               THEN envLeft > 0 => ENABLED PollItem(p)
               ELSE ENABLED PollStart(p)
          /\ IF reviewPoller.isPolling
             THEN envLeft > 0 => ENABLED ReviewItem
             ELSE ENABLED ReviewStart)
    /\ [][/\ \A p \in PollerIds : PassMovesOn(taskPoller[p], taskPoller'[p])
          /\ PassMovesOn(reviewPoller, reviewPoller')]_vars

\* taskQueue.add has thrown in a pass (the issue is locked and no job was
\* added), and the poller is between passes again.
C17_Witness ==
    /\ \E i \in Items : lockTrue[i] = 1 /\ status[i] = IN_PROGRESS
    /\ jobs = <<>>
    /\ faultsLeft = 0
    /\ \A p \in PollerIds : taskPoller[p] = IdlePoller

\* The step is the end of a handler invocation whose agent run failed: the
\* catch block puts the issue of the run into Failed.
RunFailedOn(i) ==
    /\ status[i] # FAILED
    /\ status'[i] = FAILED
    /\ \E r \in runs : ItemOf(r) = i /\ r \notin runs'

\* C18: a feedback job marks its comment ids as processed only when its
\* agent run succeeded; the end of a failed run adds none of the job's ids
\* to the ledger.
C18_MarkOnlyOnSuccess ==
    [][\A i \in Items : RunFailedOn(i) => processed' = processed]_vars

\* Of the ids of the last batch that were not in the ledger before the
\* call, all are in the ledger now, or none is.
AllOrNothing(before, commentIds, ledger) ==
    LET fresh == Range(commentIds) \ DOMAIN before
    IN  \/ \A c \in fresh : isCommentProcessed(ledger, c)
        \/ \A c \in fresh : ~isCommentProcessed(ledger, c)

\* C19: markCommentsProcessed is all-or-nothing: after a call, whether it
\* returned or threw on one of its inserts, the ledger holds every id of the
\* batch or is as it was before the call.
C19_AllOrNothing ==
    /\ AllOrNothing(marking.before, marking.commentIds, processed)
    /\ processed \in {marking.before,
                      markCommentsProcessed(marking.before, marking.commentIds,
                                            marking.taskId)}

\* The second insert of a batch of two fresh ids has thrown.
C19_Witness ==
    /\ Len(marking.commentIds) = 2
    /\ marking.failAt = 2
    /\ Range(marking.commentIds) \cap DOMAIN marking.before = {}
    /\ marking.commentIds[1] # marking.commentIds[2]
    /\ processed = marking.before

\* C20: marking is idempotent: a comment id marked again, by itself or in a
\* batch, for the same issue or another, keeps its one row as it is, and
\* isCommentProcessed holds of exactly the ids marked at least once.
C20_MarkIdempotent ==
    /\ [](\A c \in CommentPool : isCommentProcessed(processed, c) <=> c \in marking.marked)
    /\ [][\A c \in DOMAIN processed :
            c \in DOMAIN processed' /\ processed'[c] = processed[c]]_vars

\* An id that is in the ledger for one issue has been marked again in a
\* batch for the other issue.
C20_Witness ==
    /\ marking.failAt = 0
    /\ Len(marking.commentIds) = 2
    /\ \E c \in Range(marking.commentIds) :
         /\ c \in DOMAIN marking.before
         /\ marking.before[c] # marking.taskId
         /\ processed[c] = marking.before[c]

\* C21: every task id in runningTasks has its row in task_sessions, from
\* taskStarted until the entry is removed.
C21_RunningHasSessionRow ==
    \A i \in DOMAIN runningTasks :
        /\ i \in DOMAIN sessions
        /\ sessions[i].startedAt = runningTasks[i].startedAt

\* An issue is running, and its row has been there since taskStarted: the
\* agent has reported a session id meanwhile.
C21_Witness ==
    \E i \in DOMAIN runningTasks :
        /\ i \in DOMAIN sessions
        /\ runningTasks[i].sessionId # NullSession
        /\ sessions[i].sessionId = runningTasks[i].sessionId

\* C22: taskSessionId and taskCompleted for an id that is not in
\* runningTasks (never started, or completed already) leave runningTasks,
\* taskHistory and task_sessions as they are and broadcast nothing.
C22_UnknownIdIsNoOp ==
    [][(/\ call'.op \in {"taskSessionId", "taskCompleted"}
        /\ call'.taskId \notin DOMAIN runningTasks)
       => (UNCHANGED monitorVars /\ call'.events = <<>>)]_vars

\* taskCompleted has been called a second time for an issue.
C22_Witness ==
    /\ call.op = "taskCompleted"
    /\ call.events = <<>>
    /\ call.taskId \in DOMAIN taskHistory
    /\ call.taskId \notin DOMAIN runningTasks

\* A handler invocation in flight can take its next step.
CanContinue(r) ==
    /\ r.pc = "init" => ENABLED AgentInit(r)
    /\ r.pc = "agent" => ENABLED AgentEnd(r, "ok")

\* C23: between pauseExecution and resumeExecution no job becomes active,
\* while the handlers already running go on to their completion or failure;
\* when the queue is not paused a waiting job is taken as soon as a worker
\* is free.
C23_PauseHoldsWaitingJobs ==
    /\ [][isPaused =>
            \A j \in JobIds : jobs[j].state # "active" => jobs'[j].state # "active"]_vars
    /\ [](/\ isPaused => \A r \in runs : CanContinue(r)
          /\ ~isPaused =>
                \A j \in JobIds :
                    (jobs[j].state = "waiting" /\ Cardinality(ActiveJobs) < Concurrency)
                        => ENABLED Dequeue(j))

\* The queue is paused with a job waiting and a handler still running.
C23_Witness ==
    /\ isPaused
    /\ \E j \in JobIds : jobs[j].state = "waiting"
    /\ \E r \in runs : r.pc = "agent"

\* The retry jobs of the queue.
RetryJobs == {j \in JobIds : jobs[j].name = "retry"}

\* C24: a retry request for an id that is not found, for an issue that is
\* not in Failed or for one without a session id is rejected with an error
\* and does nothing: only a request that passes the three checks goes on to
\* the status transition, the comment and the retry job.
C24_RejectedRetryHasNoEffect ==
    [][/\ (call' # call /\ call'.op = "retryTask")
            => (call'.error # "" /\ UNCHANGED <<status, comments, jobs, retryReqs>>)
       /\ \A q \in retryReqs' \ retryReqs :
            /\ status[q.item] = FAILED
            /\ q.sessionId # NullSession
            /\ call' = call
       /\ \A j \in JobIds' \ JobIds :
            jobs'[j].name = "retry" =>
                \E q \in retryReqs \ retryReqs' :
                    q.item = jobs'[j].item /\ q.sessionId = jobs'[j].sessionId]_vars

\* A retry of an issue that is being worked on has been rejected, and the
\* tracker and the queue hold what the poller and the handler left.
C24_Witness ==
    /\ call.op = "retryTask"
    /\ call.error = "BadRequestException"
    /\ call.taskId \in Items
    /\ status[call.taskId] = IN_PROGRESS
    /\ RetryJobs = {}
    /\ retryReqs = {}
    /\ call.taskId \in DOMAIN sessions

\* C25: when the manual retry adds its job the issue has been put back to
\* In Progress, and the job carries the session id captured last for the
\* issue.
C25_RetryCarriesLatestSession ==
    [][\A j \in JobIds' \ JobIds :
         jobs'[j].name = "retry" =>
            /\ status'[jobs'[j].item] = IN_PROGRESS
            /\ jobs'[j].sessionId = lastCaptured'[jobs'[j].item]]_vars

\* C26: the jobs being processed at the same time, of the three handlers
\* together, are never more than the configured limit maxConcurrentTasks.
C26_WithinConfiguredLimit == Cardinality(ActiveJobs) <= maxConcurrentTasks

\* The service with a session store whose write may throw: the database
\* file is locked or the disk is full when completeTask runs.
StoreFaultInit ==
    /\ \E i \in Items : status = [k \in Items |-> IF k = i THEN TODO ELSE BACKLOG]
    /\ InitCore
    /\ maxConcurrentTasks = DefaultMaxConcurrentTasks
    /\ storeFaultsLeft = MaxStoreFaults
    /\ envLeft = MaxEnv
    /\ faultsLeft = 0
    /\ gate = NoGate

\* taskStarted when saveSession throws: the entry is in the running map,
\* nothing is stored or broadcast, and the error leaves the method uncaught.
taskStartedThrows(m, taskId, title, now) ==
    [m EXCEPT
       !.running = Put(m.running, taskId,
                       [title |-> title, progress |-> 0, currentStep |-> "",
                        steps |-> <<>>, startedAt |-> now,
                        sessionId |-> NullSession])]

\* A worker takes a waiting job and its handler ends in taskStarted, which
\* is called before the try block: the error goes to the queue, which
\* counts a failed attempt.
DequeueStoreThrows(j) ==
    /\ j \in JobIds
    /\ jobs[j].state = "waiting"
    /\ TakesJobs
    /\ Cardinality(ActiveJobs) < Concurrency
    /\ storeFaultsLeft > 0
    /\ storeFaultsLeft' = storeFaultsLeft - 1
    /\ jobs' = [jobs EXCEPT ![j] = FailJob([jobs[j] EXCEPT !.invocations = @ + 1])]
    /\ SetMonitor(taskStartedThrows(Monitor, jobs[j].item, TitleOf(jobs[j].name),
                                    <<j, RunOf(j).att>>))
    /\ UNCHANGED <<trackerVars, runs, processed, isPaused, pollerVars, retryReqs,
                   budgetVars, lastCaptured, overlapped, lateProgress, lockTrue,
                   lockFalse, gate, marking, call, maxConcurrentTasks, lifecycle,
                   merge, stats>>

StoreFaultNext == QueueNext \/ \E j \in JobIds : DequeueStoreThrows(j)

StoreFaultSpec == StoreFaultInit /\ [][StoreFaultNext]_vars

\* The step in which a session store write throws inside a tracker method.
StoreWriteThrows == storeFaultsLeft' < storeFaultsLeft

\* C27: a session store write that throws inside a tracker method stays
\* inside it: the handler whose agent run succeeded ends as it would have
\* without the error, the issue is not set to Failed, its job is completed,
\* and no entry of the issue stays in the running map.
C27_StoreFailureContained ==
    [][StoreWriteThrows =>
         \A r \in runs \ runs' :
            /\ status'[jobs[r.job].item] # FAILED
            /\ jobs'[r.job].state = "completed"
            /\ jobs[r.job].item \notin DOMAIN runningTasks']_vars

\* C28: the task:update events of every issue come in the order of its
\* runs: a started event, then progress and session events only, then one
\* terminal event, and nothing between a terminal event and the next
\* started event.
C28_EventsInLifecycleOrder == \A i \in Items : lifecycle[i] # "broken"

\* A comment whose body starts with the marker the review poller looks
\* for, written on an issue in review by a person or another integration.
BodyMarked == Body("robot")

MarkedComment(i) ==
    /\ envLeft > 0
    /\ status[i] = IN_REVIEW
    /\ envLeft' = envLeft - 1
    /\ comments' = addComment(comments, i, "human", BodyMarked)
    /\ UNCHANGED <<status, jobs, runs, monitorVars, processed, isPaused, pollerVars,
                   retryReqs, faultsLeft, ghostVars>>

\* The two pollers, the queue and the people who comment on issues in review.
ReviewNext ==
    \/ PollStart("p1")
    \/ PollItem("p1")
    \/ ReviewStart
    \/ ReviewSkip
    \/ ReviewItem
    \/ \E j \in JobIds : Dequeue(j)
    \/ \E r \in runs : AgentInit(r)
    \/ \E r \in runs : \E out \in RunOutcomes : AgentEnd(r, out)
    \/ \E j \in JobIds : Promote(j)
    \/ \E i \in Items : HumanComment(i)
    \/ \E i \in Items : MarkedComment(i)

ReviewSpec == Init /\ [][ReviewNext]_vars

\* The ids of the comments of an issue that do not start with the marker and
\* are not in the ledger.
Unprocessed(i) ==
    {c.id : c \in {d \in Range(comments[i]) :
                     ~d.body.robot /\ d.id \notin DOMAIN processed}}

\* C29: a feedback job is added only for an issue that has a session row
\* with a session id; the job carries the id of that row, and its commentIds
\* are, each once, the comments of the issue that neither start with the
\* marker nor are in the ledger when the poller looks.
C29_FeedbackJobFromSessionAndFreshComments ==
    [][\A j \in JobIds' \ JobIds :
         jobs'[j].name = "feedback" =>
            LET i == jobs'[j].item
            IN  /\ i \in DOMAIN sessions
                /\ sessions[i].sessionId \notin {NullSession, EmptySession}
                /\ jobs'[j].sessionId = sessions[i].sessionId
                /\ Range(jobs'[j].commentIds) = Unprocessed(i)
                /\ Len(jobs'[j].commentIds) = Cardinality(Unprocessed(i))]_vars

\* A feedback job waits whose issue has a comment with the marker and a
\* comment in the ledger, both left out of the job, and a comment it carries.
C29_Witness ==
    \E j \in JobIds :
        /\ jobs[j].name = "feedback"
        /\ jobs[j].state = "waiting"
        /\ jobs[j].commentIds # <<>>
        /\ \E c \in Range(comments[jobs[j].item]) :
              c.body.robot /\ c.id \notin Range(jobs[j].commentIds)
        /\ \E c \in Range(comments[jobs[j].item]) :
              c.id \in DOMAIN processed /\ c.id \notin Range(jobs[j].commentIds)

\* ------------------------------------------- the feedback of a feedback job
\* Comment bodies with their text; the one with the marker starts with it.
Separator == "\n\n---\n\n"
Texts == {"fix the title", "add a test"}
TextBodies ==
    {[robot |-> FALSE, text |-> t] : t \in Texts}
        \cup {[robot |-> TRUE, text |-> "robot \nnote"]}

\* bodies.join(separator)
RECURSIVE join(_, _)
join(strings, separator) ==
    IF strings = <<>> THEN ""
    ELSE IF Len(strings) = 1 THEN Head(strings)
    ELSE Head(strings) \o separator \o join(Tail(strings), separator)

\* newUserComments.map((c) => c.body)
Bodies(cs) == [k \in 1..Len(cs) |-> cs[k].body.text]

\* The feedback and the commentIds of the job the review poller builds from
\* what getComments returned and the ledger.
feedbackOf(fetched, ledger) ==
    join(Bodies(newUserComments(fetched, ledger)), Separator)

commentIdsOf(fetched, ledger) == CommentIds(newUserComments(fetched, ledger))

MergeInit ==
    /\ status = [i \in Items |-> BACKLOG]
    /\ InitCore
    /\ Defaults
    /\ envLeft = 0
    /\ faultsLeft = 0
    /\ gate = NoGate

MergeUnchanged ==
    UNCHANGED <<status, jobs, runs, monitorVars, isPaused, pollerVars, retryReqs,
                budgetVars, lastCaptured, overlapped, lateProgress, lockTrue,
                lockFalse, gate, marking, call, maxConcurrentTasks,
                storeFaultsLeft, lifecycle, stats>>

\* Somebody writes a comment on the issue.
PostComment(i, body) ==
    /\ Len(comments[i]) < MaxThread
    /\ comments' = addComment(comments, i, "human", body)
    /\ UNCHANGED <<processed, merge, stats>>
    /\ MergeUnchanged

\* A comment of the issue enters the ledger.
SeeComment(i, k) ==
    /\ k \in 1..Len(comments[i])
    /\ comments[i][k].id \notin DOMAIN processed
    /\ processed' = markCommentProcessed(processed, comments[i][k].id, i)
    /\ UNCHANGED <<comments, merge, stats>>
    /\ MergeUnchanged

\* The review poller's turn for the issue, from getComments to the job data.
MergeComments(i) ==
    /\ newUserComments(getComments(comments, i), processed) # <<>>
    /\ merge' = [taskId |-> i,
                 feedback |-> feedbackOf(getComments(comments, i), processed),
                 commentIds |-> commentIdsOf(getComments(comments, i), processed)]
    /\ UNCHANGED <<comments, processed>>
    /\ MergeUnchanged

MergeNext ==
    \/ \E i \in Items : \E body \in TextBodies : PostComment(i, body)
    \/ \E i \in Items : \E k \in 1..MaxThread : SeeComment(i, k)
    \/ \E i \in Items : MergeComments(i)

MergeSpec == MergeInit /\ [][MergeNext]_vars

\* The comments of the issue that do not start with the marker and are not
\* in the ledger, in the order they were written.
Remaining(i) ==
    SelectSeq(comments[i],
              LAMBDA c : ~c.body.robot /\ c.id \notin DOMAIN processed)

\* C30: the feedback of a feedback job is the bodies of the remaining
\* comments of the issue, the oldest first, with the separator between two
\* bodies, and commentIds names the same comments.
C30_FeedbackOldestFirst ==
    [][\A i \in Items :
         MergeComments(i) =>
            /\ merge'.feedback = join(Bodies(Remaining(i)), Separator)
            /\ Range(merge'.commentIds) = Range(CommentIds(Remaining(i)))]_vars

\* ------------------------------------------ the task poller and a failing add
\* Both issues are in Todo, and a call of the tracker or of the queue may
\* fail; the task poller, the queue, the handlers and the operator run.
PollFaultSpec == ClaimInit /\ [][QueueNext]_vars

\* The issue was locked by the poller and no job was ever added for it:
\* taskQueue.add threw after lockTask had returned true.
Orphaned(i) == lockTrue[i] > 0 /\ ~\E j \in JobIds : jobs[j].item = i

\* C31: an issue whose execute job could not be added after the lock stays
\* In Progress without a job, nothing in the service puts it back or adds a
\* job for it, and no pass of the poller lists it again.
C31_ClaimNotReverted ==
    /\ [](\A i \in Items :
            Orphaned(i) =>
                /\ status[i] = IN_PROGRESS
                /\ \A p \in PollerIds : i \notin Range(taskPoller[p].tasks))
    /\ [][\A i \in Items : Orphaned(i) => Orphaned(i)']_vars

\* The add for X1 threw, and a later pass of the poller works on X2 alone.
C31_Witness ==
    /\ Orphaned("X1")
    /\ taskPoller["p1"].isPolling
    /\ taskPoller["p1"].tasks = <<"X2">>

\* The handler invocation r is abandoned by the job's timeout in this step.
TimesOut(r) == ~r.zombie /\ [r EXCEPT !.zombie = TRUE] \in runs'

\* C32: every job in the queue, whoever added it, has 3 attempts, the
\* exponential backoff from 5000 ms, the configured timeout, removal when
\* completed and none when failed; a handler that runs into the timeout
\* counts as one failed attempt of its job.
C32_OnePolicyForEveryJob ==
    /\ [](\A j \in JobIds :
            /\ jobs[j].opts.attempts = 3
            /\ jobs[j].opts.backoff = [type |-> "exponential", delay |-> 5000]
            /\ jobs[j].opts.timeout = TaskTimeout
            /\ jobs[j].opts.removeOnComplete
            /\ ~jobs[j].opts.removeOnFail)
    /\ [][\A r \in runs :
            TimesOut(r) =>
                /\ jobs'[r.job].attemptsMade = jobs[r.job].attemptsMade + 1
                /\ jobs'[r.job].state \in {"delayed", "failed"}]_vars

\* The queue holds a feedback job of the review poller next to the execute
\* job of the task poller, which has a failed attempt behind it, and a
\* handler was abandoned by the timeout of its job.
C32_Witness ==
    /\ \E j \in JobIds : jobs[j].name = "feedback"
    /\ \E j \in JobIds : jobs[j].name = "execute" /\ jobs[j].attemptsMade > 0
    /\ \E r \in runs : r.zombie

\* --------------------------------------------------- getDashboardStats
\* taskQueue.getJobCounts(): completed jobs are removed when their options
\* say so.
getJobCounts(q) ==
    [s \in {"waiting", "active", "completed", "failed"} |->
        Cardinality({j \in DOMAIN q :
                        /\ q[j].state = s
                        /\ s = "completed" => ~q[j].opts.removeOnComplete})]

getLinearStats(st) ==
    [s \in {TODO, IN_PROGRESS, IN_REVIEW, DONE, FAILED} |->
        Len(getTasksByStatus(st, s))]

\* The mutation of Values for a snapshot that leaves the running tasks out.
ValuesNone(running) == {}

\* Array.from(this.runningTasks.values()), each entry with its task id.
Values(running) == {<<k, running[k]>> : k \in DOMAIN running}

\* getDashboardStats up to its await: the counts of the queue and of the
\* tracker are asked for.
StatsBegin ==
    /\ stats.pc = "idle"
    /\ stats' = [pc |-> "await", queue |-> getJobCounts(jobs),
                 linear |-> getLinearStats(status), runningTasks |-> {}]
    /\ UNCHANGED <<trackerVars, jobs, runs, monitorVars, processed, isPaused,
                   pollerVars, retryReqs, budgetVars, lastCaptured, overlapped,
                   lateProgress, lockTrue, lockFalse, gate, marking, call,
                   maxConcurrentTasks, storeFaultsLeft, lifecycle, merge>>

\* getDashboardStats after its await: the running tasks are read and the
\* snapshot is returned.
StatsReturn ==
    /\ stats.pc = "await"
    /\ stats' = [stats EXCEPT !.pc = "done", !.runningTasks = Values(runningTasks)]
    /\ UNCHANGED <<trackerVars, jobs, runs, monitorVars, processed, isPaused,
                   pollerVars, retryReqs, budgetVars, lastCaptured, overlapped,
                   lateProgress, lockTrue, lockFalse, gate, marking, call,
                   maxConcurrentTasks, storeFaultsLeft, lifecycle, merge>>

\* The dashboard asks for its statistics while the poller, the handlers and
\* the operator's pause and resume run.
StatsNext ==
    \/ PollStart("p1")
    \/ PollItem("p1")
    \/ \E j \in JobIds : Dequeue(j)
    \/ \E r \in runs : AgentInit(r)
    \/ \E r \in runs : AgentTool(r)
    \/ \E r \in runs : \E out \in RunOutcomes : AgentEnd(r, out)
    \/ \E j \in JobIds : Promote(j)
    \/ Pause
    \/ Resume
    \/ StatsBegin
    \/ StatsReturn

StatsSpec == Init /\ [][StatsNext]_vars

\* C33: a getDashboardStats call changes nothing of the running map, the
\* completed cache, the paused flag, the session store and the queue, and
\* broadcasts nothing, whatever runs between its steps; the running tasks of
\* the snapshot are the entries the running map has when it returns.
C33_DashboardStatsIsPureRead ==
    [][stats' # stats =>
         /\ UNCHANGED <<runningTasks, taskHistory, isPaused, sessions, processed,
                        jobs, call, lifecycle>>
         /\ stats'.pc = "done" =>
               {e[1] : e \in stats'.runningTasks} = DOMAIN runningTasks
               /\ \A e \in stats'.runningTasks : runningTasks[e[1]] = e[2]]_vars

\* A snapshot was returned whose counts saw the job waiting and whose
\* running tasks show the run that started while the call was awaiting.
C33_Witness ==
    /\ stats.pc = "done"
    /\ stats.queue["waiting"] = 1
    /\ stats.queue["active"] = 0
    /\ stats.runningTasks # {}

\* ------------------------------------------------- the progress of a run
\* onProgress of executeTask / executeFeedback after toolCallCount tool
\* calls, and at the start and the end of the run.
CallToolProgress(i, toolCallCount) ==
    /\ i \in DOMAIN runningTasks => Len(runningTasks[i].steps) < MaxSteps
    /\ Called("taskProgress", i,
              taskProgress(Monitor, i, "tool", ToolProgress(toolCallCount)))

CallEdgeProgress(i, progress) ==
    /\ i \in DOMAIN runningTasks => Len(runningTasks[i].steps) < MaxSteps
    /\ Called("taskProgress", i, taskProgress(Monitor, i, "edge", progress))

ProgressNext ==
    \/ \E i \in Items : \E now \in Clock : CallStarted(i, now)
    \/ \E i \in Items : \E n \in 1..MaxToolCalls : CallToolProgress(i, n)
    \/ \E i \in Items : \E progress \in {10, 100} : CallEdgeProgress(i, progress)
    \/ \E i \in Items : \E success \in BOOLEAN : CallCompleted(i, success)

ProgressSpec == MonitorInit /\ [][ProgressNext]_vars

\* C34: the progress of every entry of the running map is an integer from
\* 0 to 100, and 0 as long as the run has reported nothing.
C34_ProgressWithinBounds ==
    \A i \in DOMAIN runningTasks :
        /\ runningTasks[i].progress \in 0..100
        /\ runningTasks[i].steps = <<>> => runningTasks[i].progress = 0

\* A run has made so many tool calls that its progress stands at the cap.
C34_Witness ==
    \E i \in DOMAIN runningTasks :
        runningTasks[i].progress = 90 /\ runningTasks[i].steps # <<>>

\* C35: the completed cache is bounded whatever the number of tasks: it has
\* one entry per task id at most and drops old entries, so that it never
\* holds an entry for each of the tasks that have completed once more than
\* one has.
C35_CompletedCacheBounded ==
    Cardinality(DOMAIN taskHistory) < Cardinality(Items)

\* C36: taskStarted for an issue that has a row in task_sessions leaves the
\* session id, completed_at and success of the row as they are and writes
\* the title and started_at of the new run, so that the session id of the
\* earlier run is still the one a resume gets.
C36_StartKeepsStoredSession ==
    [][\A j \in JobIds :
         Dequeue(j) /\ jobs[j].item \in DOMAIN sessions =>
            LET i == jobs[j].item
            IN  /\ sessions'[i].sessionId = sessions[i].sessionId
                /\ sessions'[i].completedAt = sessions[i].completedAt
                /\ sessions'[i].success = sessions[i].success
                /\ sessions'[i].title = TitleOf(jobs[j].name)
                /\ sessions'[i].startedAt = runningTasks'[i].startedAt
                /\ HasSessionId(sessions, i) =>
                     getTaskSessionId(runningTasks', sessions', i) = sessions[i].sessionId]_vars

\* A retry run has started on an issue whose row has the session id, the
\* completion time and the failure of the execute run before it.
C36_Witness ==
    \E i \in DOMAIN runningTasks :
        /\ runningTasks[i].title = TitleOf("retry")
        /\ runningTasks[i].sessionId = NullSession
        /\ i \in DOMAIN sessions
        /\ HasSessionId(sessions, i)
        /\ sessions[i].completedAt = "set"
        /\ sessions[i].success = "0"
        /\ sessions[i].title = TitleOf("retry")

\* C37: every handler invocation that called taskStarted calls
\* taskCompleted for the issue before it ends, so an entry of the running
\* map always belongs to an invocation that has not ended yet and goes when
\* that one ends.
C37_EntryHasLiveRun ==
    \A i \in DOMAIN runningTasks : \E r \in runs : jobs[r.job].item = i

\* -------------------------------------------- two manual retry requests
\* One issue is in Todo; the budget lets its run fail and the operator ask
\* for a retry twice.
RetryRaceInit ==
    /\ \E i \in Items : status = [k \in Items |-> IF k = i THEN TODO ELSE BACKLOG]
    /\ InitCore
    /\ Defaults
    /\ envLeft = RaceEnv
    /\ faultsLeft = 0
    /\ gate = NoGate

RetryRaceNext ==
    \/ PollStart("p1")
    \/ PollItem("p1")
    \/ \E j \in JobIds : Dequeue(j)
    \/ \E r \in runs : AgentInit(r)
    \/ \E r \in runs : \E out \in RunOutcomes : AgentEnd(r, out)
    \/ \E j \in JobIds : Promote(j)
    \/ \E i \in Items : RetryCheck(i)
    \/ \E q \in retryReqs : RetryProceed(q)

RetryRaceSpec == RetryRaceInit /\ [][RetryRaceNext]_vars

\* C38: of the manual retry requests for one issue that overlap in time, one
\* at most adds a retry job: when a request adds its job, no other request
\* has added a retry job for the issue since this one made its checks.
C38_OverlappingRetriesAddOneJob ==
    [][\A q \in retryReqs :
         RetryProceed(q) =>
            Cardinality({j \in JobIds : jobs[j].name = "retry" /\ jobs[j].item = q.item})
                = q.jobsBefore]_vars

ClaimFairSpec ==
    /\ ClaimInit
    /\ [][ClaimNext]_vars
    /\ \A p \in PollerIds : WF_vars(PollStart(p)) /\ WF_vars(PollItem(p))

\* The turn of pass p in which the issue is claimed and taskQueue.add throws.
AddThrows(p) ==
    /\ PollItem(p)
    /\ lockTrue'[Head(taskPoller[p].tasks)] = lockTrue[Head(taskPoller[p].tasks)] + 1
    /\ faultsLeft' < faultsLeft

\* C40: when the add for one issue throws, the pass ends in that turn; the
\* issues listed after it keep their status, claims and comments and get no
\* job in it; a pass that starts lists every issue still in Todo, and every
\* issue in Todo is claimed in the end.
C40_ThrowEndsPassAndLeavesTheRest ==
    /\ [][\A p \in PollerIds :
            /\ AddThrows(p) =>
                  /\ ~taskPoller'[p].isPolling
                  /\ taskPoller'[p].tasks = <<>>
                  /\ jobs' = jobs
                  /\ \A i \in Range(Tail(taskPoller[p].tasks)) :
                        /\ status'[i] = status[i]
                        /\ lockTrue'[i] = lockTrue[i]
                        /\ comments'[i] = comments[i]
            /\ PollStart(p) =>
                  \A i \in Items :
                     status[i] = TODO => i \in Range(taskPoller'[p].tasks)]_vars
    /\ \A i \in Items : (status[i] = TODO) ~> (lockTrue[i] > 0)

\* The add for X1 has thrown in a pass that listed X2 after it: X1 is claimed
\* and has no job, X2 is untouched and in Todo, and no pass is running.
C40_Witness ==
    /\ faultsLeft < MaxFaults
    /\ \A p \in PollerIds : ~taskPoller[p].isPolling
    /\ Orphaned("X1")
    /\ status["X2"] = TODO
    /\ lockTrue["X2"] = 0
    /\ comments["X2"] = <<>>
    /\ jobs = <<>>

====
